---- MODULE Spec2Model ----
(***************************************************************************)
(* Model of the text-to-speech file converter (src/text_to_speech_file.py): *)
(* the sentence chunker split_text and the run of main() that reads the     *)
(* input, chunks it, synthesizes every chunk and writes the audio file.     *)
(*                                                                          *)
(* A string is a sequence of characters: an ASCII character is the          *)
(* one-character string, any other the name of its code point ("U+3000").   *)
(***************************************************************************)
EXTENDS Integers, Sequences, FiniteSets, TLC

\* ------------------------------------------------------------------------
\* Bounds of the model
\* ------------------------------------------------------------------------
MaxTextLen == 7
MaxMaxLength == 8

Alphabet == {"a", ".", " ", "\n"}

RECURSIVE StringsUpTo(_)
StringsUpTo(n) ==
    IF n = 0 THEN {<<>>}
    ELSE LET shorter == StringsUpTo(n - 1)
         IN  shorter \cup {Append(s, c) : s \in {p \in shorter : Len(p) = n - 1},
                                         c \in Alphabet}

Texts == StringsUpTo(MaxTextLen)

\* The worked scenario of the specification (29 characters, budget 15).
HelloScenario ==
    [text |-> <<"H","e","l","l","o"," ","w","o","r","l","d","."," ",
                "T","h","i","s"," ","i","s"," ","a"," ","t","e","s","t","."," ">>,
     max_length |-> 15]

\* ------------------------------------------------------------------------
\* Python string primitives used by split_text
\* ------------------------------------------------------------------------
\* A character of the ASCII range is the one-character string; a character
\* beyond it is the string of its code point, "U+" and four hexadecimal
\* digits ("U+00E9" is e with acute, "U+3000" the ideographic space), so
\* that a string of the model reads the same whatever encoding the module
\* is read in.
\*
\* str.isspace, for the characters str.strip() removes: the space, the
\* controls \t \n \v \f \r, the separators U+001C..U+001F, and beyond ASCII
\* the next line control, the no-break space, the Ogham space mark, the
\* spaces U+2000..U+200A, the line and the paragraph separator, the narrow
\* no-break space, the medium mathematical space and the ideographic space.
IsWhitespace(c) ==
    c \in {" ", "\t", "\n", "", "\f", "\r", "", "", "", "",
           "U+0085", "U+00A0", "U+1680",
           "U+2000", "U+2001", "U+2002", "U+2003", "U+2004", "U+2005",
           "U+2006", "U+2007", "U+2008", "U+2009", "U+200A",
           "U+2028", "U+2029", "U+202F", "U+205F", "U+3000"}

\* text.replace('\n', ' ')
ReplaceNewlines(t) ==
    [k \in 1..Len(t) |-> IF t[k] = "\n" THEN " " ELSE t[k]]

\* Index of the first occurrence of ". " in t, 0 when there is none.
FindDelimiter(t) ==
    LET hits == {i \in 1..(Len(t) - 1) : t[i] = "." /\ t[i + 1] = " "}
    IN  IF hits = {} THEN 0 ELSE CHOOSE i \in hits : \A j \in hits : i <= j

\* str.split('. '): non-overlapping occurrences, scanned left to right.
RECURSIVE SplitOnDelimiter(_)
SplitOnDelimiter(t) ==
    LET i == FindDelimiter(t)
    IN  IF i = 0 THEN <<t>>
        ELSE <<SubSeq(t, 1, i - 1)>> \o SplitOnDelimiter(SubSeq(t, i + 2, Len(t)))

\* str.lstrip()
RECURSIVE LStrip(_)
LStrip(s) ==
    IF s # <<>> /\ IsWhitespace(Head(s)) THEN LStrip(Tail(s)) ELSE s

\* str.rstrip()
RECURSIVE RStrip(_)
RStrip(s) ==
    IF s # <<>> /\ IsWhitespace(s[Len(s)]) THEN RStrip(SubSeq(s, 1, Len(s) - 1)) ELSE s

\* str.strip()
Strip(s) == RStrip(LStrip(s))

\* The newline translation of a file read in text mode (open(..., 'r') with
\* the default newline=None): "\r\n" and a lone "\r" both become "\n".
RECURSIVE TranslateNewlines(_)
TranslateNewlines(s) ==
    IF s = <<>> THEN <<>>
    ELSE IF Head(s) = "\r"
         THEN <<"\n">> \o TranslateNewlines(
                  IF Len(s) > 1 /\ s[2] = "\n" THEN SubSeq(s, 3, Len(s)) ELSE Tail(s))
         ELSE <<Head(s)>> \o TranslateNewlines(Tail(s))

\* f.read() of a file opened in text mode: the content with its newlines
\* translated.  A content without "\r" is returned as it is.
ReadText(content) ==
    IF \A i \in 1..Len(content) : content[i] # "\r"
    THEN content
    ELSE TranslateNewlines(content)

\* str.endswith('.')
EndsWithDot(s) == s # <<>> /\ s[Len(s)] = "."

\* ------------------------------------------------------------------------
\* split_text, piece by piece
\* ------------------------------------------------------------------------
\* line 17: sentences = text.replace('\n', ' ').split('. ')
Sentences(t) == SplitOnDelimiter(ReplaceNewlines(t))

\* lines 23-25: strip the sentence, put the period back unless it is empty
\* or already ends with one.
NormalizeSentenceAlwaysDot(raw) == Strip(raw) \o <<".">>

NormalizeSentenceNoEndCheck(raw) ==
    LET sentence == Strip(raw)
    IN  IF sentence # <<>> THEN sentence \o <<".">> ELSE sentence

NormalizeSentence(raw) ==
    LET sentence == Strip(raw)
    IN  IF sentence # <<>> /\ ~EndsWithDot(sentence) THEN sentence \o <<".">>
        ELSE sentence

\* line 27: len(current_chunk) + len(sentence) + 1 <= max_length
FitsStrict(cc, sentence, ml) == Len(cc) + Len(sentence) + 1 < ml

FitsIgnoringChunk(cc, sentence, ml) == Len(sentence) + 1 <= ml

FitsOffByOne(cc, sentence, ml) == Len(cc) + Len(sentence) + 2 <= ml

Fits(cc, sentence, ml) == Len(cc) + Len(sentence) + 1 <= ml

\* lines 30-31: on overflow the current chunk, when non-empty, is finalized.
FinalizeAlways(cc, done) == Append(done, Strip(cc))

FinalizeOnOverflow(cc, done) ==
    IF cc # <<>> THEN Append(done, Strip(cc)) ELSE done

\* lines 34-35: the trailing chunk is flushed after the loop.
FlushNever(cc, done) == done

FlushTrailing(cc, done) ==
    IF cc # <<>> THEN Append(done, Strip(cc)) ELSE done

\* lines 21-32: one iteration of the loop on one raw sentence.
LoopBody(cc, done, raw, ml) ==
    LET sentence == NormalizeSentence(raw)
    IN  IF Fits(cc, sentence, ml)
        THEN [current_chunk |-> cc \o sentence \o <<" ">>, chunks |-> done]
        ELSE [current_chunk |-> sentence \o <<" ">>,
              chunks |-> FinalizeOnOverflow(cc, done)]

\* lines 21-32: the loop over sentences[from..], as a fold.
RECURSIVE LoopFrom(_, _, _, _, _)
LoopFrom(ss, from, cc, done, ml) ==
    IF from > Len(ss) THEN [current_chunk |-> cc, chunks |-> done]
    ELSE LET r == LoopBody(cc, done, ss[from], ml)
         IN  LoopFrom(ss, from + 1, r.current_chunk, r.chunks, ml)

\* lines 12-37: the whole function.
split_text(t, ml) ==
    LET r == LoopFrom(Sentences(t), 1, <<>>, <<>>, ml)
    IN  FlushTrailing(r.current_chunk, r.chunks)

\* ------------------------------------------------------------------------
\* main(): constants and helpers
\* ------------------------------------------------------------------------
\* line 12: def split_text(text, max_length=4096)
DefaultMaxLength == 4096

\* line 80
ValidVoices == {"alloy", "echo", "fable", "onyx", "nova", "shimmer"}

\* line 87
ValidModelsAnyName == {"tts-1", "tts-1-hd", "gpt-4"}

ValidModels == {"tts-1", "tts-1-hd"}

\* line 70
DefaultOutputFile ==
    <<"s","p","e","e","c","h","_","o","u","t","p","u","t",".","m","p","3">>

\* line 71
DefaultVoice == "alloy"

\* line 72
DefaultModel == "tts-1"

\* line 94
AudioExtensions ==
    { <<".","m","p","3">>, <<".","o","p","u","s">>,
      <<".","a","a","c">>, <<".","f","l","a","c">> }

\* str.endswith(suffix)
EndsWith(s, suffix) ==
    /\ Len(s) >= Len(suffix)
    /\ SubSeq(s, Len(s) - Len(suffix) + 1, Len(s)) = suffix

\* lines 94-95
NormalizeOutputNameAlways(name) == name \o <<".","m","p","3">>

NormalizeOutputName(name) ==
    IF \E ext \in AudioExtensions : EndsWith(name, ext) THEN name
    ELSE name \o <<".","m","p","3">>

\* line 128: the for loop runs its body for chunk i of n.
MoreChunksSkipLast(i, n) == i < n

MoreChunks(i, n) == i <= n

\* line 139: audio_data.extend(response.content)
ExtendAudioInFront(audio, content) == content \o audio

ExtendAudio(audio, content) == audio \o content

\* lines 166-172: what the rate-limit clause prints after its first line.
RateLimitGuidance ==
    << "This means:", "To fix this:",
       "1. Go to: https://platform.openai.com/account/billing",
       "2. Add a payment method or purchase credits" >>

\* lines 177-179: what the authentication clause prints after its first line.
AuthenticationGuidance ==
    << "Your API key may be invalid or expired.",
       "Get a valid key from: https://platform.openai.com/api-keys" >>

\* lines 165-198: the except clauses: the first line each prints, the
\* lines that follow it, and the status each exits with.
ExceptHandlerSwallowing(exc) ==
    [message |-> "", guidance |-> <<>>, status |-> 0]

ExceptHandler(exc) ==
    CASE exc = "RateLimitError" ->
            [message |-> "ERROR: Rate limit or quota exceeded!",
             guidance |-> RateLimitGuidance, status |-> 1]
      [] exc = "AuthenticationError" ->
            [message |-> "ERROR: Authentication failed!",
             guidance |-> AuthenticationGuidance, status |-> 1]
      [] exc = "APIError" ->
            [message |-> "ERROR: OpenAI API error occurred",
             guidance |-> <<>>, status |-> 1]
      [] exc = "FileNotFoundError" ->
            [message |-> "ERROR: File not found", guidance |-> <<>>, status |-> 1]
      [] exc = "PermissionError" ->
            [message |-> "ERROR: Permission denied",
             guidance |-> <<"Check file permissions for input/output files.">>,
             status |-> 1]
      [] OTHER ->
            [message |-> "ERROR: Unexpected error", guidance |-> <<>>, status |-> 1]

\* ------------------------------------------------------------------------
\* Inputs of the model
\* ------------------------------------------------------------------------
Repeat(c, n) == [k \in 1..n |-> c]

\* Length of the long sentences of the input files that need several chunks.
LongSentenceLen == 3000

LongSentence == Repeat("a", LongSentenceLen)

\* Contents of the input file.
FileContents ==
    { <<>>,
      <<" ", "\n">>,
      <<"a", ".", " ", "a">>,
      <<"\n", "a", ".", " ", "a", "a", ".", "\n">>,
      <<"\t", "a", ".", "\r", "\n", " ", "b", ".", " ", "\r">>,
      <<"\f", "a", "\r", "b", ".", "">>,
      <<"U+3000", "a", "U+00E9", ".", " ", "U+200B", "b", "U+2028", "U+00A0">>,
      LongSentence \o <<".", " ">> \o LongSentence,
      LongSentence \o <<".", "\n">> \o LongSentence \o <<".", " ">> \o LongSentence,
      LongSentence \o LongSentence }

\* Audio fragments the synthesis service may return.
Fragments == { <<0>>, <<1, 2>> }

\* Exceptions client.audio.speech.create may raise.
SynthesisErrors == {"RateLimitError", "AuthenticationError", "APIError", "Exception"}

\* Exceptions open() may raise on the input file.
ReadErrors == {"FileNotFoundError", "PermissionError", "UnicodeDecodeError"}

\* Exceptions open() may raise on the output file.
WriteErrors == {"FileNotFoundError", "PermissionError", "IsADirectoryError"}

\* What a JSON file holds when json.dump was interrupted: the first
\* characters of the document, none or one of them, which is no JSON value.
InterruptedJson == { [unparsable |-> 0], [unparsable |-> 1] }

\* Output names given on the command line: without an extension, with each
\* of the four, and names that only look like having one.
OutputNames ==
    { <<"o">>, <<"o", ".", "m", "p", "3">>, <<"o", ".", "f", "l", "a", "c">>,
      <<"o", ".", "o", "p", "u", "s">>, <<"o", ".", "a", "a", "c">>,
      <<>>, <<".", "m", "p", "3">>, <<"m", "p", "3">>,
      <<"o", ".", "M", "P", "3">>, <<"o", ".", "m", "p", "3", "x">> }

VoiceArgs == {"alloy", "shimmer", "robot"}

ModelArgs == {"tts-1", "tts-1-hd", "gpt-4"}

\* sys.argv[1:]
ArgvChoices ==
    LET full == {<<"in.txt", o, v, m>> : o \in OutputNames, v \in VoiceArgs, m \in ModelArgs}
    IN  {SubSeq(a, 1, n) : a \in full, n \in 0..4}

NoFile == [exists |-> FALSE, content |-> <<>>]

\* os.environ.get("OPENAI_API_KEY"): unset, set to the empty string, set.
ApiKeyValues == { <<>>, <<"">>, <<"sk-test">> }

\* The input file of text_to_speech_file: missing, or with some content.
InputFiles == {NoFile} \cup {[exists |-> TRUE, content |-> c] : c \in FileContents}

\* ------------------------------------------------------------------------
\* State
\* ------------------------------------------------------------------------
\* One call of split_text, executed statement by statement.
VARIABLES text, max_length, sentences, idx, current_chunk, chunks, pc

\* One run of main(): its position, its locals, the output file on disk,
\* the synthesis calls made and answered, what was printed, the exit status.
VARIABLES main_pc, argv, input_file, output_file, voice, model,
          audio_data, chunk_index, requests, responses,
          output_fs, output_before, fs_writes,
          stdout, exit_status, raised, raised_at

\* The environment of the run: which script runs, the API key variable,
\* the input file on disk, the number of files opened for reading.
VARIABLES script, env_api_key, input_fs, fs_reads

\* Locals of the other scripts (batch_embeddings, text_embeddings,
\* fine_tune), the file status kept by the service, the files they wrote.
VARIABLES texts, batch_start, all_embeddings, total_tokens,
          compare_mode, save_file, jobs, file_status, polls, fs_written

splitVars == <<text, max_length, sentences, idx, current_chunk, chunks, pc>>

envVars == <<script, env_api_key, input_fs>>

scriptVars == <<texts, batch_start, all_embeddings, total_tokens,
                compare_mode, save_file, jobs, file_status, polls, fs_written>>

mainVars == <<main_pc, argv, input_file, output_file, voice, model,
              audio_data, chunk_index, requests, responses,
              output_fs, output_before, fs_writes,
              stdout, exit_status, raised, raised_at,
              envVars, scriptVars, fs_reads>>

vars == <<splitVars, mainVars>>

\* main() locals and environment before anything ran.
MainLocalsInit ==
    /\ input_file = ""
    /\ output_file = <<>>
    /\ voice = ""
    /\ model = ""
    /\ audio_data = <<>>
    /\ chunk_index = 0
    /\ requests = <<>>
    /\ responses = <<>>
    /\ fs_writes = 0
    /\ stdout = <<>>
    /\ exit_status = <<>>
    /\ raised = ""
    /\ raised_at = ""
    /\ fs_reads = 0
    /\ texts = <<>>
    /\ batch_start = 0
    /\ all_embeddings = <<>>
    /\ total_tokens = 0
    /\ compare_mode = FALSE
    /\ save_file = <<>>
    /\ jobs = <<>>
    /\ file_status = ""
    /\ polls = 0
    /\ fs_written = <<>>

\* ------------------------------------------------------------------------
\* split_text, statement by statement
\* ------------------------------------------------------------------------
\* lines 17-19
SplitSentences ==
    /\ pc = "entry"
    /\ sentences' = Sentences(text)
    /\ idx' = 1
    /\ current_chunk' = <<>>
    /\ chunks' = <<>>
    /\ pc' = "loop"
    /\ UNCHANGED <<text, max_length, mainVars>>

\* lines 21-28: the sentence fits and is appended to the current chunk.
AppendSentence ==
    /\ pc = "loop"
    /\ idx <= Len(sentences)
    /\ Fits(current_chunk, NormalizeSentence(sentences[idx]), max_length)
    /\ LET r == LoopBody(current_chunk, chunks, sentences[idx], max_length)
       IN  current_chunk' = r.current_chunk /\ chunks' = r.chunks
    /\ idx' = idx + 1
    /\ UNCHANGED <<text, max_length, sentences, pc, mainVars>>

\* lines 21-27, 29-32: the sentence overflows and starts a new chunk.
StartNewChunk ==
    /\ pc = "loop"
    /\ idx <= Len(sentences)
    /\ ~Fits(current_chunk, NormalizeSentence(sentences[idx]), max_length)
    /\ LET r == LoopBody(current_chunk, chunks, sentences[idx], max_length)
       IN  current_chunk' = r.current_chunk /\ chunks' = r.chunks
    /\ idx' = idx + 1
    /\ UNCHANGED <<text, max_length, sentences, pc, mainVars>>

\* lines 34-37: flush the trailing chunk and return.
FlushAndReturn ==
    /\ pc = "loop"
    /\ idx > Len(sentences)
    /\ chunks' = FlushTrailing(current_chunk, chunks)
    /\ pc' = "returned"
    /\ UNCHANGED <<text, max_length, sentences, idx, current_chunk, mainVars>>

\* A call split_text(text, max_length) on its own, about to start.
Init ==
    /\ \/ text \in Texts /\ max_length \in 1..MaxMaxLength
       \/ text = HelloScenario.text /\ max_length = HelloScenario.max_length
    /\ sentences = <<>>
    /\ idx = 0
    /\ current_chunk = <<>>
    /\ chunks = <<>>
    /\ pc = "entry"
    /\ main_pc = "not_running"
    /\ script = "text_to_speech_file"
    /\ env_api_key = <<"sk-test">>
    /\ input_fs = NoFile
    /\ argv = <<>>
    /\ output_fs = NoFile
    /\ output_before = NoFile
    /\ MainLocalsInit

Next ==
    \/ SplitSentences
    \/ AppendSentence
    \/ StartNewChunk
    \/ FlushAndReturn

Spec == Init /\ [][Next]_vars

\* ------------------------------------------------------------------------
\* main(), block by block
\* ------------------------------------------------------------------------
\* sys.exit(status) after printing lines.
Exit(lines, status) ==
    /\ stdout' = stdout \o lines
    /\ exit_status' = <<status>>
    /\ main_pc' = "exited"

\* An exception propagates to the except clauses of line 165.
Raise(exc) ==
    /\ raised' = exc
    /\ raised_at' = main_pc
    /\ main_pc' = "except"

\* The script is started with some arguments; the output file may exist.
MainInit ==
    /\ main_pc = "start"
    /\ script = "text_to_speech_file"
    /\ env_api_key \in ApiKeyValues
    /\ input_fs \in InputFiles
    /\ argv \in ArgvChoices
    /\ output_fs \in {NoFile, [exists |-> TRUE, content |-> <<9>>]}
    /\ output_before = output_fs
    /\ MainLocalsInit
    /\ text = <<>>
    /\ max_length = DefaultMaxLength
    /\ sentences = <<>>
    /\ idx = 0
    /\ current_chunk = <<>>
    /\ chunks = <<>>
    /\ pc = "not_called"

\* lines 41-42: if not api_key
KeyMissingOnlyEmpty(api_key) == api_key = <<"">>

KeyMissing(api_key) == api_key = <<>> \/ api_key = <<"">>

\* Where each script goes on once the key is there.
AfterApiKey(s) ==
    CASE s = "text_to_speech_file" -> "check_args"
      [] s = "text_to_speech" -> "ts_args"
      [] s = "batch_embeddings" -> "be_args"
      [] s = "text_embeddings" -> "te_args"
      [] s = "fine_tune" -> "ft_exists"
      [] s = "check_fine_tune_status" -> "cs_args"
      [] s = "use_fine_tuned_model" -> "uf_args"
      [] s = "chat_gpt" -> "cg_send"

\* lines 41-48 (the same first lines open main() of every script)
CheckApiKey ==
    /\ main_pc = "start"
    /\ IF KeyMissing(env_api_key)
       THEN Exit(<<"ERROR: OPENAI_API_KEY environment variable not set!">>, 1)
       ELSE /\ main_pc' = AfterApiKey(script)
            /\ UNCHANGED <<stdout, exit_status>>
    /\ UNCHANGED <<envVars, scriptVars, fs_reads>>
    /\ UNCHANGED <<splitVars, argv, input_file, output_file, voice, model,
                   audio_data, chunk_index, requests, responses,
                   output_fs, output_before, fs_writes, raised, raised_at>>

\* lines 51-72
ParseArguments ==
    /\ main_pc = "check_args"
    /\ IF Len(argv) < 1
       THEN /\ Exit(<<"Usage: python text_to_speech_file.py <input_file> [output_file] [voice] [model]">>, 1)
            /\ UNCHANGED <<input_file, output_file, voice, model>>
       ELSE /\ input_file' = argv[1]
            /\ output_file' = IF Len(argv) > 1 THEN argv[2] ELSE DefaultOutputFile
            /\ voice' = IF Len(argv) > 2 THEN argv[3] ELSE DefaultVoice
            /\ model' = IF Len(argv) > 3 THEN argv[4] ELSE DefaultModel
            /\ main_pc' = "check_input"
            /\ UNCHANGED <<stdout, exit_status>>
    /\ UNCHANGED <<envVars, scriptVars, fs_reads>>
    /\ UNCHANGED <<splitVars, argv, audio_data, chunk_index, requests, responses,
                   output_fs, output_before, fs_writes, raised, raised_at>>

\* lines 75-77
CheckInputExists ==
    /\ main_pc = "check_input"
    /\ IF ~input_fs.exists
       THEN Exit(<<"ERROR: Input file not found!">>, 1)
       ELSE /\ main_pc' = "check_voice"
            /\ UNCHANGED <<stdout, exit_status>>
    /\ UNCHANGED <<envVars, scriptVars, fs_reads>>
    /\ UNCHANGED <<splitVars, argv, input_file, output_file, voice, model,
                   audio_data, chunk_index, requests, responses,
                   output_fs, output_before, fs_writes, raised, raised_at>>

\* lines 80-84
ValidateVoice ==
    /\ main_pc = "check_voice"
    /\ IF voice \notin ValidVoices
       THEN Exit(<<"ERROR: Invalid voice">>, 1)
       ELSE /\ main_pc' = "check_model"
            /\ UNCHANGED <<stdout, exit_status>>
    /\ UNCHANGED <<envVars, scriptVars, fs_reads>>
    /\ UNCHANGED <<splitVars, argv, input_file, output_file, voice, model,
                   audio_data, chunk_index, requests, responses,
                   output_fs, output_before, fs_writes, raised, raised_at>>

\* lines 87-91
ValidateModel ==
    /\ main_pc = "check_model"
    /\ IF model \notin ValidModels
       THEN Exit(<<"ERROR: Invalid model">>, 1)
       ELSE /\ main_pc' = "fix_output"
            /\ UNCHANGED <<stdout, exit_status>>
    /\ UNCHANGED <<envVars, scriptVars, fs_reads>>
    /\ UNCHANGED <<splitVars, argv, input_file, output_file, voice, model,
                   audio_data, chunk_index, requests, responses,
                   output_fs, output_before, fs_writes, raised, raised_at>>

\* lines 94-95
FixOutputName ==
    /\ main_pc = "fix_output"
    /\ output_file' = NormalizeOutputName(output_file)
    /\ main_pc' = "read"
    /\ UNCHANGED <<envVars, scriptVars, fs_reads>>
    /\ UNCHANGED <<splitVars, argv, input_file, voice, model,
                   audio_data, chunk_index, requests, responses,
                   output_fs, output_before, fs_writes,
                   stdout, exit_status, raised, raised_at>>

\* lines 98-105, open() fails.
ReadInputFails ==
    /\ main_pc = "read"
    /\ \E exc \in ReadErrors : Raise(exc)
    /\ stdout' = stdout \o <<"OpenAI Text-to-Speech File Converter", "Reading file">>
    /\ fs_reads' = fs_reads + 1
    /\ UNCHANGED <<envVars, scriptVars>>
    /\ UNCHANGED <<splitVars, argv, input_file, output_file, voice, model,
                   audio_data, chunk_index, requests, responses,
                   output_fs, output_before, fs_writes, exit_status>>

\* lines 98-114: the file is read in text mode and trimmed; an empty text ends the run,
\* any other text is handed to split_text with the default max_length.
ReadInput ==
    /\ main_pc = "read"
    /\ fs_reads' = fs_reads + 1
    /\ UNCHANGED <<envVars, scriptVars>>
    /\    LET t == Strip(ReadText(input_fs.content))
          IN  IF t = <<>>
              THEN /\ Exit(<<"OpenAI Text-to-Speech File Converter", "Reading file",
                             "ERROR: Input file is empty!">>, 1)
                   /\ UNCHANGED splitVars
              ELSE /\ stdout' = stdout \o <<"OpenAI Text-to-Speech File Converter",
                                            "Reading file", "Text length">>
                   /\ text' = t
                   /\ max_length' = DefaultMaxLength
                   /\ pc' = "entry"
                   /\ main_pc' = "chunking"
                   /\ UNCHANGED <<sentences, idx, current_chunk, chunks, exit_status>>
    /\ UNCHANGED <<argv, input_file, output_file, voice, model,
                   audio_data, chunk_index, requests, responses,
                   output_fs, output_before, fs_writes, raised, raised_at>>

\* lines 114-128: split_text has returned; the loop over the chunks starts.
StartSynthesis ==
    /\ main_pc = "chunking"
    /\ pc = "returned"
    /\ stdout' = stdout \o (IF Len(chunks) > 1 THEN <<"Text split into chunks">> ELSE <<>>)
                        \o <<"Generating speech...">>
    /\ audio_data' = <<>>
    /\ chunk_index' = 1
    /\ main_pc' = IF MoreChunks(1, Len(chunks)) THEN "synthesizing" ELSE "assembling"
    /\ UNCHANGED <<envVars, scriptVars, fs_reads>>
    /\ UNCHANGED <<splitVars, argv, input_file, output_file, voice, model,
                   requests, responses, output_fs, output_before, fs_writes,
                   exit_status, raised, raised_at>>

\* The request of lines 132-136 for the current chunk.
CurrentRequest == [model |-> model, voice |-> voice, input |-> chunks[chunk_index]]

\* lines 128-139: one iteration, the synthesis call succeeds.
SynthesizeChunk ==
    /\ main_pc = "synthesizing"
    /\ \E content \in Fragments :
          /\ responses' = Append(responses, content)
          /\ audio_data' = ExtendAudio(audio_data, content)
    /\ requests' = Append(requests, CurrentRequest)
    /\ chunk_index' = chunk_index + 1
    /\ main_pc' = IF MoreChunks(chunk_index + 1, Len(chunks))
                  THEN "synthesizing" ELSE "assembling"
    /\ stdout' = stdout \o (IF Len(chunks) > 1 THEN <<"Processing chunk">> ELSE <<>>)
    /\ UNCHANGED <<envVars, scriptVars, fs_reads>>
    /\ UNCHANGED <<splitVars, argv, input_file, output_file, voice, model,
                   output_fs, output_before, fs_writes, exit_status, raised, raised_at>>

\* lines 128-136: one iteration, the synthesis call raises.
SynthesisFails ==
    /\ main_pc = "synthesizing"
    /\ \E exc \in SynthesisErrors : Raise(exc)
    /\ requests' = Append(requests, CurrentRequest)
    /\ stdout' = stdout \o (IF Len(chunks) > 1 THEN <<"Processing chunk">> ELSE <<>>)
    /\ UNCHANGED <<envVars, scriptVars, fs_reads>>
    /\ UNCHANGED <<splitVars, argv, input_file, output_file, voice, model,
                   audio_data, chunk_index, responses,
                   output_fs, output_before, fs_writes, exit_status>>

\* lines 142-144: the output file is opened for writing and the buffer
\* written to it.
WriteOutput ==
    /\ main_pc = "assembling"
    /\ output_fs' = [exists |-> TRUE, content |-> audio_data]
    /\ fs_writes' = fs_writes + 1
    /\ main_pc' = "written"
    /\ UNCHANGED <<envVars, scriptVars, fs_reads>>
    /\ UNCHANGED <<splitVars, argv, input_file, output_file, voice, model,
                   audio_data, chunk_index, requests, responses, output_before,
                   stdout, exit_status, raised, raised_at>>

\* lines 142-144: either open() of the output file fails and nothing is
\* written, or open() has created or emptied the file and the write (or the
\* flush on leaving the with block) fails: the file is left holding a
\* proper prefix of the buffer, possibly nothing.
WriteOutputFails ==
    /\ main_pc = "assembling"
    /\ \/ /\ \E exc \in WriteErrors : Raise(exc)
          /\ UNCHANGED <<output_fs, fs_writes>>
       \/ /\ Raise("OSError")
          /\ \E n \in 0..(Len(audio_data) - 1) :
                output_fs' = [exists |-> TRUE, content |-> SubSeq(audio_data, 1, n)]
          /\ fs_writes' = fs_writes + 1
    /\ UNCHANGED <<envVars, scriptVars, fs_reads>>
    /\ UNCHANGED <<splitVars, argv, input_file, output_file, voice, model,
                   audio_data, chunk_index, requests, responses,
                   output_before, stdout, exit_status>>

\* lines 146-163, then the end of main: exit status 0.
ReportSuccess ==
    /\ main_pc = "written"
    /\ Exit(<<"Success!", "Audio file saved">>, 0)
    /\ UNCHANGED <<envVars, scriptVars, fs_reads>>
    /\ UNCHANGED <<splitVars, argv, input_file, output_file, voice, model,
                   audio_data, chunk_index, requests, responses,
                   output_fs, output_before, fs_writes, raised, raised_at>>

\* The classes a raised exception is an instance of.
Superclasses(exc) ==
    CASE exc \in {"RateLimitError", "AuthenticationError"} -> {exc, "APIError", "Exception"}
      [] exc \in {"FileNotFoundError", "PermissionError", "IsADirectoryError"} ->
            {exc, "OSError", "Exception"}
      [] exc \in {"UnicodeDecodeError"} -> {exc, "ValueError", "Exception"}
      [] OTHER -> {exc, "Exception"}

\* The except clauses of each script, in the order they are written.
ExceptClauses(s) ==
    CASE s = "text_to_speech_file" ->
            <<"RateLimitError", "AuthenticationError", "APIError",
              "FileNotFoundError", "PermissionError", "Exception">>
      [] s = "text_to_speech" ->
            <<"RateLimitError", "AuthenticationError", "APIError",
              "PermissionError", "Exception">>
      [] s = "fine_tune" ->
            <<"RateLimitError", "AuthenticationError", "FileNotFoundError",
              "APIError", "Exception">>
      [] s = "check_fine_tune_status" -> <<"Exception">>
      [] OTHER ->
            <<"RateLimitError", "AuthenticationError", "APIError", "Exception">>

\* The first clause that catches the exception.
MatchingClause(s, exc) ==
    LET cs == ExceptClauses(s)
        k == CHOOSE i \in 1..Len(cs) :
                /\ cs[i] \in Superclasses(exc)
                /\ \A j \in 1..(i - 1) : cs[j] \notin Superclasses(exc)
    IN  cs[k]

\* chat_gpt.py lines 48-73
ChatGptHandler(clause) ==
    CASE clause = "RateLimitError" ->
            [message |-> "ERROR: Rate limit or quota exceeded!",
             guidance |-> RateLimitGuidance
                          \o <<"3. Check your usage limits and billing details">>,
             status |-> 1]
      [] clause = "AuthenticationError" ->
            [message |-> "ERROR: Authentication failed!",
             guidance |-> AuthenticationGuidance, status |-> 1]
      [] clause = "APIError" ->
            [message |-> "ERROR: OpenAI API error occurred", guidance |-> <<>>, status |-> 1]
      [] OTHER ->
            [message |-> "ERROR: Unexpected error", guidance |-> <<>>, status |-> 1]

\* text_to_speech.py lines 102-131
TextToSpeechHandler(clause) ==
    CASE clause = "RateLimitError" ->
            [message |-> "ERROR: Rate limit or quota exceeded!",
             guidance |-> RateLimitGuidance, status |-> 1]
      [] clause = "AuthenticationError" ->
            [message |-> "ERROR: Authentication failed!",
             guidance |-> AuthenticationGuidance, status |-> 1]
      [] clause = "APIError" ->
            [message |-> "ERROR: OpenAI API error occurred", guidance |-> <<>>, status |-> 1]
      [] clause = "PermissionError" ->
            [message |-> "ERROR: Permission denied writing to",
             guidance |-> <<"Try a different output location or check file permissions.">>,
             status |-> 1]
      [] OTHER ->
            [message |-> "ERROR: Unexpected error", guidance |-> <<>>, status |-> 1]

\* text_embeddings.py lines 193-217
TextEmbeddingsHandler(clause) ==
    CASE clause = "RateLimitError" ->
            [message |-> "ERROR: Rate limit or quota exceeded!",
             guidance |-> RateLimitGuidance, status |-> 1]
      [] clause = "AuthenticationError" ->
            [message |-> "ERROR: Authentication failed!",
             guidance |-> AuthenticationGuidance, status |-> 1]
      [] clause = "APIError" ->
            [message |-> "ERROR: OpenAI API error occurred", guidance |-> <<>>, status |-> 1]
      [] OTHER ->
            [message |-> "ERROR: Unexpected error", guidance |-> <<>>, status |-> 1]

\* fine_tune.py lines 103-131
FineTuneHandler(clause) ==
    CASE clause = "RateLimitError" ->
            [message |-> "ERROR: Rate limit or quota exceeded!",
             guidance |-> RateLimitGuidance, status |-> 1]
      [] clause = "AuthenticationError" ->
            [message |-> "ERROR: Authentication failed!",
             guidance |-> AuthenticationGuidance, status |-> 1]
      [] clause = "FileNotFoundError" ->
            [message |-> "ERROR: File not found", guidance |-> <<>>, status |-> 1]
      [] clause = "APIError" ->
            [message |-> "ERROR: OpenAI API error occurred", guidance |-> <<>>, status |-> 1]
      [] OTHER ->
            [message |-> "ERROR: Unexpected error", guidance |-> <<>>, status |-> 1]

\* batch_embeddings.py lines 129-140
BatchEmbeddingsHandler(clause) ==
    CASE clause = "RateLimitError" ->
            [message |-> "ERROR: Rate limit or quota exceeded:", guidance |-> <<>>, status |-> 1]
      [] clause = "AuthenticationError" ->
            [message |-> "ERROR: Authentication failed:", guidance |-> <<>>, status |-> 1]
      [] clause = "APIError" ->
            [message |-> "ERROR: API error:", guidance |-> <<>>, status |-> 1]
      [] OTHER ->
            [message |-> "ERROR:", guidance |-> <<>>, status |-> 1]

\* use_fine_tuned_model.py lines 58-69
UseFineTunedModelHandler(clause) ==
    CASE clause = "RateLimitError" ->
            [message |-> "ERROR: Rate limit or quota exceeded:", guidance |-> <<>>, status |-> 1]
      [] clause = "AuthenticationError" ->
            [message |-> "ERROR: Authentication failed:", guidance |-> <<>>, status |-> 1]
      [] clause = "APIError" ->
            [message |-> "ERROR: API error:", guidance |-> <<>>, status |-> 1]
      [] OTHER ->
            [message |-> "ERROR:", guidance |-> <<>>, status |-> 1]

\* check_fine_tune_status.py lines 85-87
CheckStatusHandlerNoExit(clause) ==
    [message |-> "ERROR:", guidance |-> <<>>, status |-> 0]

CheckStatusHandler(clause) ==
    [message |-> "ERROR:", guidance |-> <<>>, status |-> 1]

\* The except clause of script s that catches exc, and what it does.
ScriptExceptHandler(s, exc) ==
    LET clause == MatchingClause(s, exc)
    IN  CASE s = "text_to_speech_file" -> ExceptHandler(clause)
          [] s = "text_to_speech" -> TextToSpeechHandler(clause)
          [] s = "batch_embeddings" -> BatchEmbeddingsHandler(clause)
          [] s = "text_embeddings" -> TextEmbeddingsHandler(clause)
          [] s = "fine_tune" -> FineTuneHandler(clause)
          [] s = "check_fine_tune_status" -> CheckStatusHandler(clause)
          [] s = "use_fine_tuned_model" -> UseFineTunedModelHandler(clause)
          [] s = "chat_gpt" -> ChatGptHandler(clause)

\* lines 165-198 (and the except clauses that end main() of every script)
HandleException ==
    /\ main_pc = "except"
    /\ LET h == ScriptExceptHandler(script, raised)
       IN  Exit(<<h.message>> \o h.guidance, h.status)
    /\ UNCHANGED <<envVars, scriptVars, fs_reads>>
    /\ UNCHANGED <<splitVars, argv, input_file, output_file, voice, model,
                   audio_data, chunk_index, requests, responses,
                   output_fs, output_before, fs_writes, raised, raised_at>>

MainNext ==
    \/ CheckApiKey
    \/ ParseArguments
    \/ CheckInputExists
    \/ ValidateVoice
    \/ ValidateModel
    \/ FixOutputName
    \/ ReadInputFails
    \/ ReadInput
    \/ SplitSentences
    \/ AppendSentence
    \/ StartNewChunk
    \/ FlushAndReturn
    \/ StartSynthesis
    \/ SynthesizeChunk
    \/ SynthesisFails
    \/ WriteOutput
    \/ WriteOutputFails
    \/ ReportSuccess
    \/ HandleException

MainSpec == MainInit /\ [][MainNext]_vars

\* ------------------------------------------------------------------------
\* The other scripts: frames shared by their actions
\* ------------------------------------------------------------------------
argVars == <<input_file, output_file, voice, model, compare_mode, save_file>>

diskVars == <<output_fs, output_before, fs_writes, fs_written, fs_reads>>

workVars == <<audio_data, chunk_index, texts, batch_start, all_embeddings,
              total_tokens, jobs, file_status, polls>>

\* Exceptions a call of the client library may raise.
ApiErrors == {"RateLimitError", "AuthenticationError", "APIError", "Exception"}

\* ------------------------------------------------------------------------
\* chat_gpt.py
\* ------------------------------------------------------------------------
\* lines 28-36
ChatGptRequest ==
    [api |-> "chat.completions.create",
     model |-> "ft:gpt-3.5-turbo-0125:born2rule::CSC05TYi"]

\* lines 24-46, then the end of main: exit status 0.
ChatGptSend ==
    /\ main_pc = "cg_send"
    /\ requests' = Append(requests, ChatGptRequest)
    /\ responses' = Append(responses, "completion")
    /\ Exit(<<"Sending message", "GPT Response:", "Tokens used">>, 0)
    /\ UNCHANGED <<splitVars, envVars, argv, argVars, diskVars, workVars,
                   raised, raised_at>>

\* lines 24-36: the request raises.
ChatGptSendFails ==
    /\ main_pc = "cg_send"
    /\ requests' = Append(requests, ChatGptRequest)
    /\ stdout' = stdout \o <<"Sending message">>
    /\ \E exc \in ApiErrors : Raise(exc)
    /\ UNCHANGED <<splitVars, envVars, argv, argVars, diskVars, workVars,
                   responses, exit_status>>

\* ------------------------------------------------------------------------
\* use_fine_tuned_model.py
\* ------------------------------------------------------------------------
\* lines 30-33: the words of the user message.
UserMessage(args) ==
    IF Len(args) >= 2 THEN SubSeq(args, 2, Len(args))
    ELSE <<"What are your business hours?">>

\* lines 18-36
UseModelArguments ==
    /\ main_pc = "uf_args"
    /\ IF Len(argv) < 1
       THEN /\ Exit(<<"Usage: python use_fine_tuned_model.py <fine_tuned_model_name>">>, 1)
            /\ UNCHANGED model
       ELSE /\ model' = argv[1]
            /\ stdout' = stdout \o <<"Using model", "User message">>
            /\ main_pc' = "uf_send"
            /\ UNCHANGED exit_status
    /\ UNCHANGED <<splitVars, envVars, argv, input_file, output_file, voice,
                   compare_mode, save_file, diskVars, workVars,
                   requests, responses, raised, raised_at>>

\* lines 40-48
UseModelRequest ==
    [api |-> "chat.completions.create", model |-> model,
     user_message |-> UserMessage(argv)]

\* lines 40-56, then the end of main: exit status 0.
UseModelSend ==
    /\ main_pc = "uf_send"
    /\ requests' = Append(requests, UseModelRequest)
    /\ responses' = Append(responses, "completion")
    /\ Exit(<<"Response:", "Tokens used">>, 0)
    /\ UNCHANGED <<splitVars, envVars, argv, argVars, diskVars, workVars,
                   raised, raised_at>>

\* lines 40-48: the request raises.
UseModelSendFails ==
    /\ main_pc = "uf_send"
    /\ requests' = Append(requests, UseModelRequest)
    /\ \E exc \in ApiErrors : Raise(exc)
    /\ UNCHANGED <<splitVars, envVars, argv, argVars, diskVars, workVars,
                   responses, stdout, exit_status>>

\* ------------------------------------------------------------------------
\* check_fine_tune_status.py
\* ------------------------------------------------------------------------
\* Statuses a fine-tuning job may be reported in.
JobStatuses == {"succeeded", "running", "failed"}

\* lines 18-22
CheckStatusArguments ==
    /\ main_pc = "cs_args"
    /\ IF Len(argv) < 1
       THEN Exit(<<"Usage: python check_fine_tune_status.py <job_id>">>, 1)
       ELSE /\ main_pc' = "cs_run"
            /\ UNCHANGED <<stdout, exit_status>>
    /\ UNCHANGED <<splitVars, envVars, argv, argVars, diskVars, workVars,
                   requests, responses, raised, raised_at>>

\* lines 27-43, then the end of main: exit status 0.
ListJobs ==
    /\ main_pc = "cs_run"
    /\ argv[1] = "--list"
    /\ requests' = Append(requests, [api |-> "fine_tuning.jobs.list"])
    /\ responses' = Append(responses, "jobs")
    /\ Exit(<<"All Fine-Tuning Jobs">>, 0)
    /\ UNCHANGED <<splitVars, envVars, argv, argVars, diskVars, workVars,
                   raised, raised_at>>

\* lines 27-32: the request raises.
ListJobsFails ==
    /\ main_pc = "cs_run"
    /\ argv[1] = "--list"
    /\ requests' = Append(requests, [api |-> "fine_tuning.jobs.list"])
    /\ stdout' = stdout \o <<"All Fine-Tuning Jobs">>
    /\ \E exc \in ApiErrors : Raise(exc)
    /\ UNCHANGED <<splitVars, envVars, argv, argVars, diskVars, workVars,
                   responses, exit_status>>

\* lines 44-76: the job is retrieved and its status printed.
RetrieveJob ==
    /\ main_pc = "cs_run"
    /\ argv[1] # "--list"
    /\ requests' = Append(requests, [api |-> "fine_tuning.jobs.retrieve", job_id |-> argv[1]])
    /\ \E st \in JobStatuses :
          /\ responses' = Append(responses, st)
          /\ stdout' = stdout \o <<"Checking status for job", "Status">>
                              \o (IF st = "failed" THEN <<"Job failed!">> ELSE <<>>)
    /\ main_pc' = "cs_events"
    /\ UNCHANGED <<splitVars, envVars, argv, argVars, diskVars, workVars,
                   exit_status, raised, raised_at>>

\* lines 44-50: the request raises.
RetrieveJobFails ==
    /\ main_pc = "cs_run"
    /\ argv[1] # "--list"
    /\ requests' = Append(requests, [api |-> "fine_tuning.jobs.retrieve", job_id |-> argv[1]])
    /\ stdout' = stdout \o <<"Checking status for job">>
    /\ \E exc \in ApiErrors : Raise(exc)
    /\ UNCHANGED <<splitVars, envVars, argv, argVars, diskVars, workVars,
                   responses, exit_status>>

\* lines 78-83, then the end of main: exit status 0.
ListEvents ==
    /\ main_pc = "cs_events"
    /\ requests' = Append(requests, [api |-> "fine_tuning.jobs.list_events", job_id |-> argv[1]])
    /\ responses' = Append(responses, "events")
    /\ Exit(<<"Recent Events:">>, 0)
    /\ UNCHANGED <<splitVars, envVars, argv, argVars, diskVars, workVars,
                   raised, raised_at>>

\* lines 78-81: the request raises.
ListEventsFails ==
    /\ main_pc = "cs_events"
    /\ requests' = Append(requests, [api |-> "fine_tuning.jobs.list_events", job_id |-> argv[1]])
    /\ stdout' = stdout \o <<"Recent Events:">>
    /\ \E exc \in ApiErrors : Raise(exc)
    /\ UNCHANGED <<splitVars, envVars, argv, argVars, diskVars, workVars,
                   responses, exit_status>>

\* ------------------------------------------------------------------------
\* text_to_speech.py
\* ------------------------------------------------------------------------
\* line 44
SpeechDefaultOutputFile == <<"s","p","e","e","c","h",".","m","p","3">>

\* lines 23-46
SpeechParseArguments ==
    /\ main_pc = "ts_args"
    /\ IF Len(argv) < 1
       THEN /\ Exit(<<"Usage: python text_to_speech.py <text> [output_file] [voice] [model]">>, 1)
            /\ UNCHANGED <<output_file, voice, model>>
       ELSE /\ output_file' = IF Len(argv) > 1 THEN argv[2] ELSE SpeechDefaultOutputFile
            /\ voice' = IF Len(argv) > 2 THEN argv[3] ELSE "alloy"
            /\ model' = IF Len(argv) > 3 THEN argv[4] ELSE "tts-1"
            /\ main_pc' = "ts_voice"
            /\ UNCHANGED <<stdout, exit_status>>
    /\ UNCHANGED <<splitVars, envVars, argv, input_file, compare_mode, save_file,
                   diskVars, workVars, requests, responses, raised, raised_at>>

\* lines 49-53
SpeechValidateVoice ==
    /\ main_pc = "ts_voice"
    /\ IF voice \notin {"alloy", "echo", "fable", "onyx", "nova", "shimmer"}
       THEN Exit(<<"ERROR: Invalid voice">>, 1)
       ELSE /\ main_pc' = "ts_model"
            /\ UNCHANGED <<stdout, exit_status>>
    /\ UNCHANGED <<splitVars, envVars, argv, argVars, diskVars, workVars,
                   requests, responses, raised, raised_at>>

\* lines 56-60
SpeechValidateModel ==
    /\ main_pc = "ts_model"
    /\ IF model \notin {"tts-1", "tts-1-hd"}
       THEN Exit(<<"ERROR: Invalid model">>, 1)
       ELSE /\ main_pc' = "ts_fix_output"
            /\ UNCHANGED <<stdout, exit_status>>
    /\ UNCHANGED <<splitVars, envVars, argv, argVars, diskVars, workVars,
                   requests, responses, raised, raised_at>>

\* lines 63-64
SpeechFixOutputName ==
    /\ main_pc = "ts_fix_output"
    /\ output_file' = NormalizeOutputName(output_file)
    /\ main_pc' = "ts_send"
    /\ UNCHANGED <<splitVars, envVars, argv, input_file, voice, model,
                   compare_mode, save_file, diskVars, workVars,
                   requests, responses, stdout, exit_status, raised, raised_at>>

\* lines 77-81
SpeechRequest == [model |-> model, voice |-> voice, input |-> argv[1]]

\* lines 67-81: the synthesis call succeeds.
SpeechSynthesize ==
    /\ main_pc = "ts_send"
    /\ requests' = Append(requests, SpeechRequest)
    /\ \E content \in Fragments : responses' = Append(responses, content)
    /\ stdout' = stdout \o <<"OpenAI Text-to-Speech Generator", "Generating speech...">>
    /\ main_pc' = "ts_save"
    /\ UNCHANGED <<splitVars, envVars, argv, argVars, diskVars, workVars,
                   exit_status, raised, raised_at>>

\* lines 67-81: the synthesis call raises.
SpeechSynthesizeFails ==
    /\ main_pc = "ts_send"
    /\ requests' = Append(requests, SpeechRequest)
    /\ stdout' = stdout \o <<"OpenAI Text-to-Speech Generator", "Generating speech...">>
    /\ \E exc \in ApiErrors : Raise(exc)
    /\ UNCHANGED <<splitVars, envVars, argv, argVars, diskVars, workVars,
                   responses, exit_status>>

\* lines 84-100: the response is streamed to the output file, then the end
\* of main: exit status 0.
SpeechSaveAudio ==
    /\ main_pc = "ts_save"
    /\ output_fs' = [exists |-> TRUE, content |-> responses[Len(responses)]]
    /\ fs_writes' = fs_writes + 1
    /\ Exit(<<"Success!", "Audio file saved">>, 0)
    /\ UNCHANGED <<splitVars, envVars, argv, argVars, workVars,
                   output_before, fs_written, fs_reads,
                   requests, responses, raised, raised_at>>

\* line 85: either the output file cannot be opened, or stream_to_file has
\* created or emptied it and a write fails: the file is left holding a
\* proper prefix of the response.
SpeechSaveAudioFails ==
    /\ main_pc = "ts_save"
    /\ \/ /\ \E exc \in WriteErrors : Raise(exc)
          /\ UNCHANGED <<output_fs, fs_writes>>
       \/ /\ Raise("OSError")
          /\ \E n \in 0..(Len(responses[Len(responses)]) - 1) :
                output_fs' = [exists |-> TRUE,
                              content |-> SubSeq(responses[Len(responses)], 1, n)]
          /\ fs_writes' = fs_writes + 1
    /\ UNCHANGED <<splitVars, envVars, argv, argVars, workVars,
                   output_before, fs_written, fs_reads,
                   requests, responses, stdout, exit_status>>

\* ------------------------------------------------------------------------
\* batch_embeddings.py
\* ------------------------------------------------------------------------
\* line 74
BatchSize == 100

\* line 46
ValidEmbeddingModels ==
    {"text-embedding-3-small", "text-embedding-3-large", "text-embedding-ada-002"}

\* line 63: [line.strip() for line in f if line.strip()]
NonBlankLines(lines) ==
    LET kept == SelectSeq(lines, LAMBDA l : Strip(l) # <<>>)
    IN  [k \in 1..Len(kept) |-> Strip(kept[k])]

\* line 79: texts[i:i + batch_size]
Batch(ts, i) ==
    LET last == IF i + BatchSize < Len(ts) THEN i + BatchSize ELSE Len(ts)
    IN  SubSeq(ts, i + 1, last)

\* line 91: the index of entry j of the batch that starts at i.
EntryIndexWithinBatch(i, j) == j

EntryIndex(i, j) == i + j

\* lines 87-92: the entries for the first n embeddings of a response to the
\* batch that starts at i (j is 0-based in the code, k = j + 1 here).
BatchEntries(batch, i, embeddings, n) ==
    [k \in 1..n |-> [text |-> batch[k],
                     embedding |-> embeddings[k],
                     index |-> EntryIndex(i, k - 1)]]

\* lines 97-103
OutputData ==
    [model |-> model,
     dimensions |-> Len(all_embeddings[1].embedding),
     total_texts |-> Len(texts),
     total_tokens |-> total_tokens,
     embeddings |-> all_embeddings]

\* lines 21-38
BatchParseArguments ==
    /\ main_pc = "be_args"
    /\ IF Len(argv) < 1
       THEN /\ Exit(<<"Usage: python batch_embeddings.py <input_file> [output_file] [model]">>, 1)
            /\ UNCHANGED <<input_file, output_file, model>>
       ELSE /\ input_file' = argv[1]
            /\ output_file' = IF Len(argv) > 1 THEN argv[2] ELSE "embeddings.json"
            /\ model' = IF Len(argv) > 2 THEN argv[3] ELSE "text-embedding-3-small"
            /\ main_pc' = "be_exists"
            /\ UNCHANGED <<stdout, exit_status>>
    /\ UNCHANGED <<splitVars, envVars, argv, voice, compare_mode, save_file,
                   diskVars, workVars, requests, responses, raised, raised_at>>

\* lines 41-43
BatchCheckInputExists ==
    /\ main_pc = "be_exists"
    /\ IF ~input_fs.exists
       THEN Exit(<<"ERROR: Input file not found!">>, 1)
       ELSE /\ main_pc' = "be_model"
            /\ UNCHANGED <<stdout, exit_status>>
    /\ UNCHANGED <<splitVars, envVars, argv, argVars, diskVars, workVars,
                   requests, responses, raised, raised_at>>

\* lines 46-50
BatchValidateModel ==
    /\ main_pc = "be_model"
    /\ IF model \notin ValidEmbeddingModels
       THEN Exit(<<"ERROR: Invalid model">>, 1)
       ELSE /\ main_pc' = "be_read"
            /\ UNCHANGED <<stdout, exit_status>>
    /\ UNCHANGED <<splitVars, envVars, argv, argVars, diskVars, workVars,
                   requests, responses, raised, raised_at>>

\* lines 56-78: the lines are read; no text ends the run, otherwise the
\* loop over the batches starts at i = 0.
BatchReadInput ==
    /\ main_pc = "be_read"
    /\ fs_reads' = fs_reads + 1
    /\ LET ts == NonBlankLines(input_fs.content)
       IN  IF ts = <<>>
           THEN /\ Exit(<<"OpenAI Batch Embeddings Generator", "Reading file",
                          "ERROR: Input file is empty!">>, 1)
                /\ UNCHANGED <<texts, batch_start, all_embeddings, total_tokens>>
           ELSE /\ stdout' = stdout \o <<"OpenAI Batch Embeddings Generator",
                                         "Reading file", "Found texts to process">>
                /\ texts' = ts
                /\ batch_start' = 0
                /\ all_embeddings' = <<>>
                /\ total_tokens' = 0
                /\ main_pc' = "be_batch"
                /\ UNCHANGED exit_status
    /\ UNCHANGED <<splitVars, envVars, argv, argVars,
                   output_fs, output_before, fs_writes, fs_written,
                   audio_data, chunk_index, jobs, file_status, polls,
                   requests, responses, raised, raised_at>>

\* lines 56-62: open() fails.
BatchReadInputFails ==
    /\ main_pc = "be_read"
    /\ fs_reads' = fs_reads + 1
    /\ stdout' = stdout \o <<"OpenAI Batch Embeddings Generator", "Reading file">>
    /\ \E exc \in ReadErrors : Raise(exc)
    /\ UNCHANGED <<splitVars, envVars, argv, argVars,
                   output_fs, output_before, fs_writes, fs_written, workVars,
                   requests, responses, exit_status>>

\* lines 82-85
BatchRequest ==
    [api |-> "embeddings.create", model |-> model, input |-> Batch(texts, batch_start)]

\* The embeddings of a response with n entries to the batch starting at i.
ResponseEmbeddings(i, n) == [k \in 1..n |-> <<i + k, 0 - (i + k)>>]

\* Numbers of entries a response to a batch of n inputs may carry.
ResponseSizes(n) == {n - 1, n, n + 1}

\* Token counts response.usage.total_tokens may report for n inputs: the
\* service counts the tokens of the texts, one or several per text.
UsageTokens(n) == {n, 3 * n + 1}

\* lines 78-94: one iteration; the response has no more entries than the
\* batch has inputs, and its usage is added to the total.
EmbedBatch ==
    /\ main_pc = "be_batch"
    /\ LET batch == Batch(texts, batch_start)
       IN  \E n \in ResponseSizes(Len(batch)), tokens \in UsageTokens(Len(batch)) :
              /\ n <= Len(batch)
              /\ responses' = Append(responses, n)
              /\ all_embeddings' = all_embeddings
                    \o BatchEntries(batch, batch_start, ResponseEmbeddings(batch_start, n), n)
              /\ total_tokens' = total_tokens + tokens
    /\ requests' = Append(requests, BatchRequest)
    /\ stdout' = Append(stdout, "Processing batch")
    /\ batch_start' = batch_start + BatchSize
    /\ main_pc' = IF batch_start + BatchSize < Len(texts) THEN "be_batch" ELSE "be_save"
    /\ UNCHANGED <<splitVars, envVars, argv, argVars, diskVars,
                   audio_data, chunk_index, texts, jobs, file_status, polls,
                   exit_status, raised, raised_at>>

\* lines 78-92: the response has more entries than the batch has inputs;
\* batch[j] raises IndexError after the entries of the batch were appended.
EmbedBatchOverlong ==
    /\ main_pc = "be_batch"
    /\ LET batch == Batch(texts, batch_start)
           n == Len(batch) + 1
       IN  /\ n \in ResponseSizes(Len(batch))
           /\ responses' = Append(responses, n)
           /\ all_embeddings' = all_embeddings
                 \o BatchEntries(batch, batch_start,
                                 ResponseEmbeddings(batch_start, n), Len(batch))
    /\ requests' = Append(requests, BatchRequest)
    /\ stdout' = Append(stdout, "Processing batch")
    /\ Raise("IndexError")
    /\ UNCHANGED <<splitVars, envVars, argv, argVars, diskVars,
                   audio_data, chunk_index, texts, batch_start, total_tokens,
                   jobs, file_status, polls, exit_status>>

\* lines 78-85: the request raises.
EmbedBatchFails ==
    /\ main_pc = "be_batch"
    /\ requests' = Append(requests, BatchRequest)
    /\ stdout' = Append(stdout, "Processing batch")
    /\ \E exc \in ApiErrors : Raise(exc)
    /\ UNCHANGED <<splitVars, envVars, argv, argVars, diskVars, workVars,
                   responses, exit_status>>

\* lines 97-127: the output data is written as JSON, then the end of main:
\* exit status 0.
SaveEmbeddings ==
    /\ main_pc = "be_save"
    /\ all_embeddings # <<>>
    /\ fs_written' = Append(fs_written, [path |-> output_file, content |-> OutputData])
    /\ fs_writes' = fs_writes + 1
    /\ Exit(<<"Saving embeddings to", "Success!">>, 0)
    /\ UNCHANGED <<splitVars, envVars, argv, argVars, workVars,
                   output_fs, output_before, fs_reads,
                   requests, responses, raised, raised_at>>

\* line 99: all_embeddings[0] raises IndexError when no entry was collected.
OutputDataFails ==
    /\ main_pc = "be_save"
    /\ all_embeddings = <<>>
    /\ Raise("IndexError")
    /\ UNCHANGED <<splitVars, envVars, argv, argVars, diskVars, workVars,
                   requests, responses, stdout, exit_status>>

\* lines 106-107: either open() of the output file fails and nothing is
\* written, or open() has created or emptied the file and json.dump fails:
\* the file is left holding the beginning of the document.
SaveEmbeddingsFails ==
    /\ main_pc = "be_save"
    /\ all_embeddings # <<>>
    /\ stdout' = Append(stdout, "Saving embeddings to")
    /\ \/ /\ \E exc \in WriteErrors : Raise(exc)
          /\ UNCHANGED <<fs_written, fs_writes>>
       \/ /\ Raise("OSError")
          /\ \E doc \in InterruptedJson :
                fs_written' = Append(fs_written, [path |-> output_file, content |-> doc])
          /\ fs_writes' = fs_writes + 1
    /\ UNCHANGED <<splitVars, envVars, argv, argVars, workVars,
                   output_fs, output_before, fs_reads,
                   requests, responses, exit_status>>

\* ------------------------------------------------------------------------
\* text_embeddings.py
\* ------------------------------------------------------------------------
\* list.index(x): position of the first occurrence, 0 when there is none
\* (positions are those of sys.argv, where the script name has position 0).
IndexOf(args, x) ==
    LET hits == {k \in 1..Len(args) : args[k] = x}
    IN  IF hits = {} THEN 0 ELSE CHOOSE k \in hits : \A j \in hits : k <= j

\* lines 68-72: None is <<>>, a file name f is <<f>>.
SaveOption(args) ==
    LET save_index == IndexOf(args, "--save")
    IN  IF save_index # 0 /\ save_index + 1 < Len(args) + 1
        THEN <<args[save_index + 1]>>
        ELSE <<>>

\* line 170: if save_file
SaveRequested(sf) == sf # <<>> /\ sf[1] # ""

\* lines 36-72
EmbedParseArguments ==
    /\ main_pc = "te_args"
    /\ IF Len(argv) < 1
       THEN /\ Exit(<<"Usage: python text_embeddings.py <text> [model]">>, 1)
            /\ UNCHANGED <<model, compare_mode, save_file>>
       ELSE IF argv[1] = "--compare" /\ Len(argv) < 3
       THEN /\ Exit(<<"ERROR: --compare requires two text arguments",
                      "Usage: python text_embeddings.py --compare text1 text2 [model]">>, 1)
            /\ UNCHANGED <<model, compare_mode, save_file>>
       ELSE /\ compare_mode' = (argv[1] = "--compare")
            /\ model' = IF argv[1] = "--compare"
                        THEN IF Len(argv) > 3 THEN argv[4] ELSE "text-embedding-3-small"
                        ELSE IF Len(argv) > 1 THEN argv[2] ELSE "text-embedding-3-small"
            /\ save_file' = SaveOption(argv)
            /\ main_pc' = "te_model"
            /\ UNCHANGED <<stdout, exit_status>>
    /\ UNCHANGED <<splitVars, envVars, argv, input_file, output_file, voice,
                   diskVars, workVars, requests, responses, raised, raised_at>>

\* lines 75-79
EmbedValidateModel ==
    /\ main_pc = "te_model"
    /\ IF model \notin {"text-embedding-3-small", "text-embedding-3-large",
                        "text-embedding-ada-002"}
       THEN Exit(<<"ERROR: Invalid model">>, 1)
       ELSE /\ main_pc' = "te_send"
            /\ UNCHANGED <<stdout, exit_status>>
    /\ UNCHANGED <<splitVars, envVars, argv, argVars, diskVars, workVars,
                   requests, responses, raised, raised_at>>

\* lines 93-101, 138-141
EmbeddingRequest(input) == [api |-> "embeddings.create", model |-> model, input |-> input]

\* Embeddings the service may return for one text.
Embeddings == { <<1, 2>>, <<3, 4, 5>> }

\* lines 19-21: np.dot of two vectors is defined when they have the same
\* length, and raises ValueError otherwise.
SameShape(vec1, vec2) == Len(vec1) = Len(vec2)

\* lines 86-130, 191, then the end of main: both requests succeed with
\* embeddings of one length, exit status 0.
CompareTexts ==
    /\ main_pc = "te_send"
    /\ compare_mode
    /\ requests' = requests \o <<EmbeddingRequest(argv[2]), EmbeddingRequest(argv[3])>>
    /\ \E e1, e2 \in Embeddings :
          /\ SameShape(e1, e2)
          /\ responses' = responses \o <<e1, e2>>
    /\ Exit(<<"OpenAI Text Embeddings Generator", "Generating embeddings...",
              "Results:", "Cosine Similarity">>, 0)
    /\ UNCHANGED <<splitVars, envVars, argv, argVars, diskVars, workVars,
                   raised, raised_at>>

\* lines 86-107: both requests succeed with embeddings of different
\* lengths; cosine_similarity raises ValueError before anything more is
\* printed.
CompareTextsMismatch ==
    /\ main_pc = "te_send"
    /\ compare_mode
    /\ requests' = requests \o <<EmbeddingRequest(argv[2]), EmbeddingRequest(argv[3])>>
    /\ \E e1, e2 \in Embeddings :
          /\ ~SameShape(e1, e2)
          /\ responses' = responses \o <<e1, e2>>
    /\ stdout' = stdout \o <<"OpenAI Text Embeddings Generator", "Generating embeddings...">>
    /\ Raise("ValueError")
    /\ UNCHANGED <<splitVars, envVars, argv, argVars, diskVars, workVars, exit_status>>

\* lines 86-101: the first or the second request raises.
CompareTextsFails ==
    /\ main_pc = "te_send"
    /\ compare_mode
    /\ \/ /\ requests' = Append(requests, EmbeddingRequest(argv[2]))
          /\ UNCHANGED responses
       \/ /\ requests' = requests \o <<EmbeddingRequest(argv[2]), EmbeddingRequest(argv[3])>>
          /\ \E e1 \in Embeddings : responses' = Append(responses, e1)
    /\ stdout' = stdout \o <<"OpenAI Text Embeddings Generator", "Generating embeddings...">>
    /\ \E exc \in ApiErrors : Raise(exc)
    /\ UNCHANGED <<splitVars, envVars, argv, argVars, diskVars, workVars, exit_status>>

\* lines 133-167, and lines 186-191 with the end of main (exit status 0)
\* when no file is to be saved.
EmbedText ==
    /\ main_pc = "te_send"
    /\ ~compare_mode
    /\ requests' = Append(requests, EmbeddingRequest(argv[1]))
    /\ \E e \in Embeddings : responses' = Append(responses, e)
    /\ IF SaveRequested(save_file)
       THEN /\ stdout' = stdout \o <<"OpenAI Text Embeddings Generator",
                                     "Generating embedding...",
                                     "Embedding Generated Successfully!">>
            /\ main_pc' = "te_save"
            /\ UNCHANGED exit_status
       ELSE Exit(<<"OpenAI Text Embeddings Generator", "Generating embedding...",
                   "Embedding Generated Successfully!", "Full Embedding Vector:">>, 0)
    /\ UNCHANGED <<splitVars, envVars, argv, argVars, diskVars, workVars,
                   raised, raised_at>>

\* lines 133-141: the request raises.
EmbedTextFails ==
    /\ main_pc = "te_send"
    /\ ~compare_mode
    /\ requests' = Append(requests, EmbeddingRequest(argv[1]))
    /\ stdout' = stdout \o <<"OpenAI Text Embeddings Generator", "Generating embedding...">>
    /\ \E exc \in ApiErrors : Raise(exc)
    /\ UNCHANGED <<splitVars, envVars, argv, argVars, diskVars, workVars,
                   responses, exit_status>>

\* lines 171-180
EmbeddingData ==
    LET embedding == responses[Len(responses)]
    IN  [text |-> argv[1], model |-> model, embedding |-> embedding,
         dimensions |-> Len(embedding)]

\* lines 170-191, then the end of main: exit status 0.
SaveEmbedding ==
    /\ main_pc = "te_save"
    /\ fs_written' = Append(fs_written, [path |-> save_file[1], content |-> EmbeddingData])
    /\ fs_writes' = fs_writes + 1
    /\ Exit(<<"Embedding saved to", "Full Embedding Vector:">>, 0)
    /\ UNCHANGED <<splitVars, envVars, argv, argVars, workVars,
                   output_fs, output_before, fs_reads,
                   requests, responses, raised, raised_at>>

\* lines 181-182: either open() of the file to save fails and nothing is
\* written, or open() has created or emptied the file and json.dump fails:
\* the file is left holding the beginning of the document.
SaveEmbeddingFails ==
    /\ main_pc = "te_save"
    /\ \/ /\ \E exc \in WriteErrors : Raise(exc)
          /\ UNCHANGED <<fs_written, fs_writes>>
       \/ /\ Raise("OSError")
          /\ \E doc \in InterruptedJson :
                fs_written' = Append(fs_written, [path |-> save_file[1], content |-> doc])
          /\ fs_writes' = fs_writes + 1
    /\ UNCHANGED <<splitVars, envVars, argv, argVars, workVars,
                   output_fs, output_before, fs_reads,
                   requests, responses, stdout, exit_status>>

\* ------------------------------------------------------------------------
\* fine_tune.py
\* ------------------------------------------------------------------------
\* Most polls of a file that is still being processed in one run.
MaxPolls == 3

\* Statuses of an uploaded file; "processed" and "error" are final.
FileStatuses == {"uploaded", "processed", "error"}

\* lines 58-66: where the loop goes on a status.
AfterPollErrorAsDone(status) ==
    IF status \in {"processed", "error"} THEN "ft_create" ELSE "ft_poll"

AfterPoll(status) ==
    CASE status = "processed" -> "ft_create"
      [] status = "error" -> "exited"
      [] OTHER -> "ft_poll"

\* lines 30-34
CheckTrainingFile ==
    /\ main_pc = "ft_exists"
    /\ IF ~input_fs.exists
       THEN Exit(<<"ERROR: Training file not found!">>, 1)
       ELSE /\ main_pc' = "ft_upload"
            /\ UNCHANGED <<stdout, exit_status>>
    /\ UNCHANGED <<splitVars, envVars, argv, argVars, diskVars, workVars,
                   requests, responses, raised, raised_at>>

\* lines 37-55: the training file is opened and uploaded.
UploadFile ==
    /\ main_pc = "ft_upload"
    /\ fs_reads' = fs_reads + 1
    /\ requests' = Append(requests, [api |-> "files.create"])
    /\ \E st \in FileStatuses :
          /\ file_status' = st
          /\ responses' = Append(responses, <<"file", st>>)
    /\ stdout' = stdout \o <<"OpenAI Fine-Tuning Job Creator", "Uploading training file",
                             "File uploaded successfully!",
                             "Waiting for file to be processed...">>
    /\ main_pc' = "ft_poll"
    /\ UNCHANGED <<splitVars, envVars, argv, argVars,
                   output_fs, output_before, fs_writes, fs_written,
                   audio_data, chunk_index, texts, batch_start, all_embeddings,
                   total_tokens, jobs, polls, exit_status, raised, raised_at>>

\* lines 37-47: open() or the upload raises.
UploadFileFails ==
    /\ main_pc = "ft_upload"
    /\ fs_reads' = fs_reads + 1
    /\ \/ /\ \E exc \in ReadErrors : Raise(exc)
          /\ UNCHANGED requests
       \/ /\ \E exc \in ApiErrors : Raise(exc)
          /\ requests' = Append(requests, [api |-> "files.create"])
    /\ stdout' = stdout \o <<"OpenAI Fine-Tuning Job Creator", "Uploading training file">>
    /\ UNCHANGED <<splitVars, envVars, argv, argVars,
                   output_fs, output_before, fs_writes, fs_written, workVars,
                   responses, exit_status>>

\* The service finishes processing the uploaded file.
ServiceProcessesFile ==
    /\ file_status = "uploaded"
    /\ \E st \in {"processed", "error"} : file_status' = st
    /\ UNCHANGED <<splitVars, envVars, argv, argVars, diskVars,
                   audio_data, chunk_index, texts, batch_start, all_embeddings,
                   total_tokens, jobs, polls,
                   main_pc, requests, responses, stdout, exit_status, raised, raised_at>>

\* The loop of lines 56-66 has no bound of its own: a file that stays
\* "uploaded" is polled for ever, each poll adding a request, a response
\* and a line of output.  The runs explored are cut after MaxPolls status
\* requests on such a file: no further step of the program is taken, with
\* or without an exception, until the service has processed the file.
\* polls counts the statuses returned.
PollExplored == file_status \in {"processed", "error"} \/ polls < MaxPolls

\* lines 56-66 with check_file_status (lines 11-14): one iteration of the
\* loop.
PollFileStatus ==
    /\ main_pc = "ft_poll"
    /\ PollExplored
    /\ requests' = Append(requests, [api |-> "files.retrieve"])
    /\ responses' = Append(responses, <<"status", file_status>>)
    /\ polls' = polls + 1
    /\ main_pc' = AfterPoll(file_status)
    /\ stdout' = Append(stdout,
                        CASE file_status = "processed" -> "File processed successfully!"
                          [] file_status = "error" -> "File processing failed!"
                          [] OTHER -> "Current status. Waiting...")
    /\ exit_status' = IF AfterPoll(file_status) = "exited" THEN <<1>> ELSE exit_status
    /\ UNCHANGED <<splitVars, envVars, argv, argVars, diskVars,
                   audio_data, chunk_index, texts, batch_start, all_embeddings,
                   total_tokens, jobs, file_status, raised, raised_at>>

\* lines 57, 13: the status request raises.
PollFileStatusFails ==
    /\ main_pc = "ft_poll"
    /\ PollExplored
    /\ requests' = Append(requests, [api |-> "files.retrieve"])
    /\ \E exc \in ApiErrors : Raise(exc)
    /\ UNCHANGED <<splitVars, envVars, argv, argVars, diskVars, workVars,
                   responses, stdout, exit_status>>

\* lines 69-101, then the end of main: exit status 0.
CreateJob ==
    /\ main_pc = "ft_create"
    /\ requests' = Append(requests, [api |-> "fine_tuning.jobs.create"])
    /\ responses' = Append(responses, <<"job">>)
    /\ jobs' = Append(jobs, [model |-> "gpt-3.5-turbo", n_epochs |-> 3])
    /\ Exit(<<"Creating fine-tuning job...", "Fine-tuning job created successfully!">>, 0)
    /\ UNCHANGED <<splitVars, envVars, argv, argVars, diskVars,
                   audio_data, chunk_index, texts, batch_start, all_embeddings,
                   total_tokens, file_status, polls, raised, raised_at>>

\* lines 69-76: the request raises.
CreateJobFails ==
    /\ main_pc = "ft_create"
    /\ requests' = Append(requests, [api |-> "fine_tuning.jobs.create"])
    /\ stdout' = Append(stdout, "Creating fine-tuning job...")
    /\ \E exc \in ApiErrors : Raise(exc)
    /\ UNCHANGED <<splitVars, envVars, argv, argVars, diskVars, workVars,
                   responses, exit_status>>

\* ------------------------------------------------------------------------
\* Inputs of the other scripts
\* ------------------------------------------------------------------------
Scripts ==
    {"text_to_speech_file", "text_to_speech", "batch_embeddings", "text_embeddings",
     "fine_tune", "check_fine_tune_status", "use_fine_tuned_model", "chat_gpt"}

\* Most full batches in an input file of batch_embeddings.
MaxBatches == 2

Digits == <<"0", "1", "2", "3", "4", "5", "6", "7", "8", "9">>

\* The text of line k: "t" and the three decimal digits of k.
LineText(k) ==
    <<"t", Digits[((k \div 100) % 10) + 1], Digits[((k \div 10) % 10) + 1],
      Digits[(k % 10) + 1]>>

\* A file of n texts, one per line, each indented and followed by a blank
\* or whitespace-only line.
LinesOf(n) ==
    [p \in 1..(2 * n) |->
        IF p % 2 = 1 THEN <<" ">> \o LineText((p + 1) \div 2) \o <<"\n">>
        ELSE IF p % 4 = 0 THEN <<"\n">> ELSE <<" ", "\t", "\n">>]

\* Numbers of texts: none, a few, and around each multiple of the batch size.
LineCounts ==
    {0, 1, 2} \cup {b * BatchSize + d : b \in 1..MaxBatches, d \in {0 - 1, 0, 1}}

\* The input file of batch_embeddings, as the lines iterating it yields.
BatchInputFiles ==
    {NoFile} \cup {[exists |-> TRUE, content |-> LinesOf(n)] : n \in LineCounts}

BatchArgvChoices ==
    LET full == {<<"texts.txt", "out.json", m>> :
                    m \in {"text-embedding-3-large", "gpt-4"}}
    IN  {SubSeq(a, 1, n) : a \in full, n \in 0..3}

SpeechArgvChoices ==
    LET full == {<<"Hello, world!", o, v, m>> :
                    o \in OutputNames, v \in VoiceArgs, m \in ModelArgs}
    IN  {SubSeq(a, 1, n) : a \in full, n \in 0..4}

EmbedArgvChoices ==
    { <<>>,
      <<"hello">>,
      <<"hello", "text-embedding-3-large">>,
      <<"hello", "gpt-4">>,
      <<"hello", "--save", "out.json">>,
      <<"hello", "text-embedding-3-small", "--save", "out.json">>,
      <<"hello", "text-embedding-3-small", "--save">>,
      <<"hello", "text-embedding-3-small", "--save", "">>,
      <<"hello", "text-embedding-3-small", "extra", "--save", "out.json">>,
      <<"--save", "text-embedding-3-small", "--save", "out.json">>,
      <<"--compare">>,
      <<"--compare", "a">>,
      <<"--compare", "a", "b">>,
      <<"--compare", "a", "b", "text-embedding-ada-002">>,
      <<"--compare", "a", "b", "gpt-4">>,
      <<"--compare", "a", "b", "text-embedding-ada-002", "--save", "out.json">> }

ArgvOf(s) ==
    CASE s = "text_to_speech_file" -> ArgvChoices
      [] s = "text_to_speech" -> SpeechArgvChoices
      [] s = "batch_embeddings" -> BatchArgvChoices
      [] s = "text_embeddings" -> EmbedArgvChoices
      [] s = "fine_tune" -> { <<>>, <<"extra">> }
      [] s = "check_fine_tune_status" -> { <<>>, <<"--list">>, <<"ftjob-1">> }
      [] s = "use_fine_tuned_model" ->
            { <<>>, <<"ft:m">>, <<"ft:m", "hi">>, <<"ft:m", "hi", "there">> }
      [] s = "chat_gpt" -> { <<>>, <<"extra">> }

\* The file the script reads: the input file, or training_data.jsonl.
InputFilesOf(s) ==
    CASE s = "text_to_speech_file" -> InputFiles
      [] s = "batch_embeddings" -> BatchInputFiles
      [] s = "fine_tune" -> {NoFile, [exists |-> TRUE, content |-> <<"{", "}">>]}
      [] OTHER -> {NoFile}

\* The audio file at the output path before the run.
OutputFilesOf(s) ==
    IF s \in {"text_to_speech_file", "text_to_speech"}
    THEN {NoFile, [exists |-> TRUE, content |-> <<9>>]}
    ELSE {NoFile}

\* ------------------------------------------------------------------------
\* A run of any of the scripts
\* ------------------------------------------------------------------------
ScriptInit(s) ==
    /\ main_pc = "start"
    /\ script = s
    /\ env_api_key \in ApiKeyValues
    /\ input_fs \in InputFilesOf(s)
    /\ argv \in ArgvOf(s)
    /\ output_fs \in OutputFilesOf(s)
    /\ output_before = output_fs
    /\ MainLocalsInit
    /\ text = <<>>
    /\ max_length = DefaultMaxLength
    /\ sentences = <<>>
    /\ idx = 0
    /\ current_chunk = <<>>
    /\ chunks = <<>>
    /\ pc = "not_called"

ScriptsInit == \E s \in Scripts : ScriptInit(s)

ScriptsNext ==
    \/ CheckApiKey
    \/ ParseArguments
    \/ CheckInputExists
    \/ ValidateVoice
    \/ ValidateModel
    \/ FixOutputName
    \/ ReadInputFails
    \/ ReadInput
    \/ SplitSentences
    \/ AppendSentence
    \/ StartNewChunk
    \/ FlushAndReturn
    \/ StartSynthesis
    \/ SynthesizeChunk
    \/ SynthesisFails
    \/ WriteOutput
    \/ WriteOutputFails
    \/ ReportSuccess
    \/ HandleException
    \/ ChatGptSend
    \/ ChatGptSendFails
    \/ UseModelArguments
    \/ UseModelSend
    \/ UseModelSendFails
    \/ CheckStatusArguments
    \/ ListJobs
    \/ ListJobsFails
    \/ RetrieveJob
    \/ RetrieveJobFails
    \/ ListEvents
    \/ ListEventsFails
    \/ SpeechParseArguments
    \/ SpeechValidateVoice
    \/ SpeechValidateModel
    \/ SpeechFixOutputName
    \/ SpeechSynthesize
    \/ SpeechSynthesizeFails
    \/ SpeechSaveAudio
    \/ SpeechSaveAudioFails
    \/ BatchParseArguments
    \/ BatchCheckInputExists
    \/ BatchValidateModel
    \/ BatchReadInput
    \/ BatchReadInputFails
    \/ EmbedBatch
    \/ EmbedBatchOverlong
    \/ EmbedBatchFails
    \/ SaveEmbeddings
    \/ OutputDataFails
    \/ SaveEmbeddingsFails
    \/ EmbedParseArguments
    \/ EmbedValidateModel
    \/ CompareTexts
    \/ CompareTextsMismatch
    \/ CompareTextsFails
    \/ EmbedText
    \/ EmbedTextFails
    \/ SaveEmbedding
    \/ SaveEmbeddingFails
    \/ CheckTrainingFile
    \/ UploadFile
    \/ UploadFileFails
    \/ ServiceProcessesFile
    \/ PollFileStatus
    \/ PollFileStatusFails
    \/ CreateJob
    \/ CreateJobFails

ScriptsSpec == ScriptsInit /\ [][ScriptsNext]_vars

\* ------------------------------------------------------------------------
\* A run of fine_tune.py, with the script always taking its next step
\* ------------------------------------------------------------------------
FineTuneInit == ScriptInit("fine_tune")

\* The steps of the script itself.
FineTuneProgram ==
    \/ CheckApiKey
    \/ CheckTrainingFile
    \/ UploadFile
    \/ UploadFileFails
    \/ PollFileStatus
    \/ PollFileStatusFails
    \/ CreateJob
    \/ CreateJobFails
    \/ HandleException

FineTuneNext ==
    \/ FineTuneProgram
    \/ ServiceProcessesFile

FineTuneSpec == FineTuneInit /\ [][FineTuneNext]_vars /\ WF_vars(FineTuneProgram)

\* ------------------------------------------------------------------------
\* Properties of split_text
\* ------------------------------------------------------------------------
Returned == pc = "returned"

\* The sentence as the loop measures it (after lines 23-25).
SentenceAt(i) == NormalizeSentence(sentences[i])

\* A group of consecutive sentences laid out as one chunk: each followed by
\* a space, the whole trimmed.
RECURSIVE JoinSentences(_, _, _)
JoinSentences(ss, lo, hi) ==
    IF lo > hi THEN <<>>
    ELSE NormalizeSentence(ss[lo]) \o <<" ">> \o JoinSentences(ss, lo + 1, hi)

\* cs[ci..] are the sentences ss[from..] cut into non-empty consecutive
\* groups, one group per chunk, in order.
RECURSIVE IsOrderedPartition(_, _, _, _)
IsOrderedPartition(ss, from, cs, ci) ==
    IF ci > Len(cs) THEN from > Len(ss)
    ELSE \E to \in from..Len(ss) :
            /\ cs[ci] = Strip(JoinSentences(ss, from, to))
            /\ IsOrderedPartition(ss, to + 1, cs, ci + 1)

\* Total length of the sentences laid out in one chunk, one separator each.
RECURSIVE TotalWithOverhead(_, _)
TotalWithOverhead(ss, from) ==
    IF from > Len(ss) THEN 0
    ELSE Len(NormalizeSentence(ss[from])) + 1 + TotalWithOverhead(ss, from + 1)

\* C1: every returned chunk has length <= max_length unless it is exactly
\* one sentence whose own length exceeds max_length; when every sentence has
\* length <= max_length, every chunk has length <= max_length.
C1_ChunkLengthBound ==
    Returned =>
        /\ \A i \in 1..Len(chunks) :
              \/ Len(chunks[i]) <= max_length
              \/ \E j \in 1..Len(sentences) :
                    /\ chunks[i] = SentenceAt(j)
                    /\ Len(SentenceAt(j)) > max_length
        /\ (\A j \in 1..Len(sentences) : Len(SentenceAt(j)) <= max_length)
              => \A i \in 1..Len(chunks) : Len(chunks[i]) <= max_length

\* C1 witness: a result of two non-empty chunks, the first within the
\* budget and the second a single sentence that exceeds it.
C1_Witness ==
    /\ Returned
    /\ Len(chunks) = 2
    /\ chunks[1] # <<>>
    /\ Len(chunks[1]) <= max_length
    /\ Len(chunks[2]) > max_length
    /\ chunks[2] = SentenceAt(Len(sentences))

\* C2: for non-empty text the chunks are the sentences of the input cut into
\* consecutive groups, in input order: none lost, duplicated or reordered,
\* and the last group (the trailing chunk) is present.
C2_TotalAndOrdered ==
    (Returned /\ text # <<>>) =>
        /\ sentences = Sentences(text)
        /\ IsOrderedPartition(sentences, 1, chunks, 1)

\* C2 witness: three non-empty sentences in two chunks, the trailing chunk
\* holding the last sentence.
C2_Witness ==
    /\ Returned
    /\ Len(sentences) = 3
    /\ \A j \in 1..3 : SentenceAt(j) # <<>>
    /\ Len(chunks) = 2
    /\ chunks[2] = SentenceAt(3)

\* C6: in every iteration the sentence is appended to the current chunk
\* exactly when len(current_chunk) + len(sentence) + 1 <= max_length;
\* otherwise the current chunk is finalized trimmed (when non-empty) and the
\* sentence starts the new chunk; a chunk is only ever closed in front of a
\* sentence that could not be joined to it under that rule.
C6_AppendRule ==
    [][(pc = "loop" /\ idx' = idx + 1) =>
          LET s == SentenceAt(idx)
          IN  /\ IF Len(current_chunk) + Len(s) + 1 <= max_length
                 THEN /\ current_chunk' = current_chunk \o s \o <<" ">>
                      /\ chunks' = chunks
                 ELSE /\ current_chunk' = s \o <<" ">>
                      /\ chunks' = IF current_chunk = <<>> THEN chunks
                                   ELSE Append(chunks, Strip(current_chunk))
              /\ chunks' # chunks =>
                    Len(current_chunk) + Len(s) + 1 > max_length]_vars

\* C6 witness: the loop has both appended a sentence to a non-empty chunk
\* and closed a chunk in front of an overflowing sentence.
C6_Witness ==
    /\ pc = "loop"
    /\ idx = 4
    /\ Len(chunks) = 1
    /\ chunks[1] = Strip(JoinSentences(sentences, 1, 2))
    /\ SentenceAt(1) # <<>> /\ SentenceAt(2) # <<>>
    /\ current_chunk = SentenceAt(3) \o <<" ">>

\* C7: split_text("Hello world. This is a test. ", 15) returns exactly
\* ["Hello world.", "This is a test."].
C7_HelloScenario ==
    (Returned /\ text = HelloScenario.text /\ max_length = HelloScenario.max_length) =>
        chunks = << SubSeq(HelloScenario.text, 1, 12),
                    SubSeq(HelloScenario.text, 14, 28) >>

\* C8 as stated: a non-empty text without the literal ". " gives exactly one
\* chunk, the whole text with '.' appended unless it already ends with '.'.
C8_Original ==
    (Returned /\ text # <<>> /\ FindDelimiter(text) = 0) =>
        chunks = << IF EndsWithDot(text) THEN text ELSE text \o <<".">> >>

\* C8 amended: a non-empty text that has no ". " once its newlines are
\* replaced by spaces gives exactly one chunk: that text trimmed, with a
\* single '.' appended when it is non-empty and does not end with '.'.
C8_NoDelimiter ==
    (Returned /\ text # <<>> /\ FindDelimiter(ReplaceNewlines(text)) = 0) =>
        LET t == Strip(ReplaceNewlines(text))
        IN  chunks = << IF t = <<>> \/ EndsWithDot(t) THEN t ELSE t \o <<".">> >>

\* C8 witness: delimiter-free texts of both kinds, one already punctuated
\* and one that gets its period, longer than the budget.
C8_Witness ==
    /\ Returned
    /\ FindDelimiter(ReplaceNewlines(text)) = 0
    /\ Len(text) >= 3
    /\ Len(text) > max_length
    /\ ~EndsWithDot(text)
    /\ chunks = << text \o <<".">> >>

\* C9: when all sentences fit together in one chunk (their lengths plus one
\* separator each are <= max_length; in particular when len(text) + 2 <=
\* max_length) exactly one chunk is returned.
C9_FitsInOneChunk ==
    Returned =>
        /\ TotalWithOverhead(sentences, 1) <= max_length => Len(chunks) = 1
        /\ Len(text) + 2 <= max_length => Len(chunks) = 1

\* C9 witness: two sentences that fill the budget exactly, in one chunk.
C9_Witness ==
    /\ Returned
    /\ Len(sentences) >= 2
    /\ \A j \in 1..Len(sentences) : SentenceAt(j) # <<>>
    /\ TotalWithOverhead(sentences, 1) = max_length
    /\ Len(chunks) = 1

\* C10: a text that is one sentence longer than max_length gives exactly one
\* chunk, that sentence whole, exceeding the budget.
C10_OversizedSentence ==
    (Returned /\ Len(Sentences(text)) = 1
              /\ Len(NormalizeSentence(Sentences(text)[1])) > max_length) =>
        /\ Len(chunks) = 1
        /\ chunks[1] = NormalizeSentence(Sentences(text)[1])
        /\ Len(chunks[1]) > max_length

\* C10 witness: a single sentence at least twice the budget returned whole.
C10_Witness ==
    /\ Returned
    /\ Len(sentences) = 1
    /\ max_length >= 2
    /\ Len(SentenceAt(1)) >= 2 * max_length
    /\ chunks = << SentenceAt(1) >>

\* ------------------------------------------------------------------------
\* Properties of main()
\* ------------------------------------------------------------------------
\* The fragments returned so far, concatenated in the order they came.
RECURSIVE Concat(_)
Concat(seqs) ==
    IF seqs = <<>> THEN <<>> ELSE Head(seqs) \o Concat(Tail(seqs))

\* The run ended with exit status 0.
Succeeded == main_pc = "exited" /\ exit_status = <<0>>

\* The phase of the run in the terms of the specification's state machine.
Phase ==
    CASE main_pc = "chunking" -> "Chunking"
      [] main_pc = "synthesizing" -> "Synthesizing"
      [] main_pc = "assembling" -> "Assembling"
      [] main_pc = "written" \/ Succeeded -> "Written"
      [] main_pc = "except" \/ (main_pc = "exited" /\ ~Succeeded) -> "Failed"
      [] OTHER -> "Idle"

PhaseOrder ==
    { <<"Idle", "Idle">>, <<"Idle", "Chunking">>, <<"Idle", "Failed">>,
      <<"Chunking", "Chunking">>, <<"Chunking", "Synthesizing">>,
      <<"Synthesizing", "Synthesizing">>, <<"Synthesizing", "Assembling">>,
      <<"Synthesizing", "Failed">>,
      <<"Assembling", "Written">>, <<"Assembling", "Failed">>,
      <<"Written", "Written">>, <<"Failed", "Failed">> }

ErrorMessages ==
    { "ERROR: Rate limit or quota exceeded!", "ERROR: Authentication failed!",
      "ERROR: OpenAI API error occurred", "ERROR: File not found",
      "ERROR: Permission denied", "ERROR: Unexpected error" }

\* C3: the synthesis calls made are, at every moment, the first chunks in
\* chunk order, one call per chunk; when all N calls succeeded and the file
\* was written, there were exactly N calls and the file holds exactly
\* b_1 ++ ... ++ b_N.
C3_AssemblerConcatenation ==
    /\ Len(requests) <= Len(chunks)
    /\ \A k \in 1..Len(requests) :
          requests[k] = [model |-> model, voice |-> voice, input |-> chunks[k]]
    /\ (main_pc = "written" \/ Succeeded) =>
          /\ Len(requests) = Len(chunks)
          /\ Len(responses) = Len(chunks)
          /\ fs_writes = 1
          /\ output_fs = [exists |-> TRUE, content |-> Concat(responses)]

\* C3 witness: a successful run of three chunks with fragments of different
\* lengths.
C3_Witness ==
    /\ Succeeded
    /\ Len(chunks) = 3
    /\ responses = << <<1, 2>>, <<0>>, <<1, 2>> >>
    /\ output_fs.content = <<1, 2, 0, 1, 2>>

\* C4: when the synthesis call fails on chunk k, the output file is neither
\* created nor modified, the calls made are exactly those for chunks 1..k,
\* and the run reports the failure and exits with status 1.
C4_SynthesisFailureAborts ==
    raised_at = "synthesizing" =>
        /\ main_pc \in {"except", "exited"}
        /\ output_fs = output_before
        /\ fs_writes = 0
        /\ chunk_index \in 1..Len(chunks)
        /\ Len(requests) = chunk_index
        /\ Len(responses) = chunk_index - 1
        /\ \A k \in 1..Len(requests) : requests[k].input = chunks[k]
        /\ main_pc = "exited" =>
              /\ exit_status = <<1>>
              /\ \E k \in 1..Len(stdout) : stdout[k] \in ErrorMessages

\* C4 witness: the second of three chunks failed on the rate limit, the run
\* has exited and the file that existed before is as it was.
C4_Witness ==
    /\ main_pc = "exited"
    /\ raised_at = "synthesizing"
    /\ raised = "RateLimitError"
    /\ Len(chunks) = 3
    /\ chunk_index = 2
    /\ output_before.exists
    /\ output_fs = output_before

\* C5 as stated: the phases follow Idle -> Chunking -> Synthesizing(i = 1..N)
\* -> Assembling -> Written; the file is written once, in the step from
\* Assembling to Written, after all N fragments were fetched; a failure
\* during Synthesizing leads directly to Failed; Failed is terminal and the
\* output file is then as it was before the run.
C5_Original ==
    [][/\ <<Phase, Phase'>> \in PhaseOrder
       /\ (Phase # "Synthesizing" /\ Phase' = "Synthesizing") => chunk_index' = 1
       /\ (Phase = "Synthesizing" /\ Phase' = "Synthesizing") =>
             /\ chunk_index' = chunk_index + 1
             /\ chunk_index' <= Len(chunks)
       /\ (Phase = "Synthesizing" /\ Phase' = "Assembling") =>
             /\ chunk_index = Len(chunks)
             /\ Len(responses') = Len(chunks)
       /\ (output_fs' # output_fs \/ fs_writes' # fs_writes) =>
             /\ Phase = "Assembling" /\ Phase' = "Written"
             /\ Len(responses) = Len(chunks)
             /\ fs_writes = 0 /\ fs_writes' = 1
       /\ (Phase = "Synthesizing" /\ raised' # raised) => Phase' = "Failed"
       /\ Phase' = "Failed" => output_fs' = output_before'
       /\ Phase = "Failed" => (requests' = requests /\ output_fs' = output_fs)
      ]_vars

\* s is a beginning of t that stops short of its end.
IsProperPrefix(s, t) == Len(s) < Len(t) /\ s = SubSeq(t, 1, Len(s))

\* C5: the phases follow Idle -> Chunking -> Synthesizing(i = 1..N) ->
\* Assembling -> Written; the file is opened for writing once, in a step
\* that leaves Assembling, after all N fragments were fetched; the step to
\* Written leaves the whole audio in it; a failure during Synthesizing leads
\* directly to Failed with the output file as it was before the run; a
\* failure of the write in Assembling leads to Failed with the file either
\* as it was or holding a proper prefix of the audio; Failed is terminal.
C5_StateMachine ==
    [][/\ <<Phase, Phase'>> \in PhaseOrder
       /\ (Phase # "Synthesizing" /\ Phase' = "Synthesizing") => chunk_index' = 1
       /\ (Phase = "Synthesizing" /\ Phase' = "Synthesizing") =>
             /\ chunk_index' = chunk_index + 1
             /\ chunk_index' <= Len(chunks)
       /\ (Phase = "Synthesizing" /\ Phase' = "Assembling") =>
             /\ chunk_index = Len(chunks)
             /\ Len(responses') = Len(chunks)
       /\ (output_fs' # output_fs \/ fs_writes' # fs_writes) =>
             /\ Phase = "Assembling" /\ Phase' \in {"Written", "Failed"}
             /\ Len(responses) = Len(chunks)
             /\ fs_writes = 0 /\ fs_writes' = 1
       /\ (Phase = "Assembling" /\ Phase' = "Written") =>
             output_fs' = [exists |-> TRUE, content |-> Concat(responses)]
       /\ (Phase = "Synthesizing" /\ raised' # raised) => Phase' = "Failed"
       /\ (Phase \in {"Idle", "Chunking", "Synthesizing"} /\ Phase' = "Failed") =>
             output_fs' = output_before'
       /\ (Phase = "Assembling" /\ Phase' = "Failed") =>
             \/ output_fs' = output_before' /\ fs_writes' = 0
             \/ /\ output_fs'.exists
                /\ IsProperPrefix(output_fs'.content, Concat(responses))
                /\ fs_writes' = 1
       /\ Phase = "Failed" =>
             (requests' = requests /\ output_fs' = output_fs /\ Phase' = "Failed")
      ]_vars

\* C5 witness: a run of two chunks went through every phase up to
\* Assembling, the write failed after the file that existed before was
\* emptied, and the run has exited with status 1 leaving it empty.
C5_Witness ==
    /\ main_pc = "exited"
    /\ exit_status = <<1>>
    /\ raised = "OSError"
    /\ raised_at = "assembling"
    /\ Len(chunks) = 2
    /\ Len(responses) = 2
    /\ output_before.exists
    /\ output_before.content # <<>>
    /\ output_fs = [exists |-> TRUE, content |-> <<>>]
    /\ fs_writes = 1

\* ------------------------------------------------------------------------
\* Claims about sentence normalization and empty chunks (split_text)
\* ------------------------------------------------------------------------
\* The sentences the loop has already normalized.
Processed == {i \in 1..Len(sentences) : pc \in {"loop", "returned"} /\ i < idx}

\* C17 as stated, of the sentences the split produced: one that is non-empty
\* and ends with '.' is unchanged, one that is non-empty and does not gets
\* exactly one '.' appended, the empty one stays empty; a non-empty
\* normalized sentence ends with '.'; normalizing twice equals once.
C17_Original ==
    \A i \in Processed :
        LET raw == sentences[i]
            n == NormalizeSentence(raw)
        IN  /\ (raw # <<>> /\ EndsWithDot(raw)) => n = raw
            /\ (raw # <<>> /\ ~EndsWithDot(raw)) => n = raw \o <<".">>
            /\ raw = <<>> => n = <<>>
            /\ n # <<>> => EndsWithDot(n)
            /\ NormalizeSentence(n) = n

\* C17 amended: the same of the sentence once its surrounding whitespace is
\* trimmed: the trimmed sentence is unchanged when it is empty or ends with
\* '.', and gets exactly one '.' appended otherwise; a non-empty normalized
\* sentence ends with '.'; normalizing twice equals normalizing once.
C17_NormalizeTrimmed ==
    \A i \in Processed :
        LET t == Strip(sentences[i])
            n == NormalizeSentence(sentences[i])
        IN  /\ (t # <<>> /\ EndsWithDot(t)) => n = t
            /\ (t # <<>> /\ ~EndsWithDot(t)) => n = t \o <<".">>
            /\ t = <<>> => n = <<>>
            /\ n # <<>> => EndsWithDot(n)
            /\ NormalizeSentence(n) = n

\* C17 witness: one call has normalized a sentence that kept its period, a
\* sentence that got one, and a whitespace-only sentence that became empty.
C17_Witness ==
    /\ Returned
    /\ \E i, j, k \in Processed :
          /\ EndsWithDot(Strip(sentences[i]))
          /\ NormalizeSentence(sentences[i]) = Strip(sentences[i])
          /\ Strip(sentences[j]) # <<>> /\ ~EndsWithDot(sentences[j])
          /\ NormalizeSentence(sentences[j]) = Strip(sentences[j]) \o <<".">>
          /\ sentences[k] # <<>> /\ NormalizeSentence(sentences[k]) = <<>>
    /\ \E c \in 1..Len(chunks) : EndsWithDot(chunks[c])

\* C18: for a non-empty trimmed text and max_length > 0, split_text returns
\* at least one chunk and every chunk it returns is non-empty.
C18_NoEmptyChunk ==
    (Returned /\ text # <<>> /\ Strip(text) = text /\ max_length > 0) =>
        /\ Len(chunks) >= 1
        /\ \A c \in 1..Len(chunks) : chunks[c] # <<>>

\* ------------------------------------------------------------------------
\* Claims about the start of a run, validation and error reporting
\* ------------------------------------------------------------------------
Exited == main_pc = "exited"

\* Some line of the output is one of the given lines.
Printed(lines) == \E k \in 1..Len(stdout) : stdout[k] \in lines

\* The API key variable is unset, or set to the empty string.
KeyAbsent == env_api_key = <<>> \/ env_api_key = <<"">>

\* C11: in every script, when the API key variable is absent the run, once
\* past its first step, has ended with the fatal key error as its only
\* output and exit status 1, with no request sent, no file read and no file
\* written, whatever the arguments and the files are.
C11_KeyCheckedFirst ==
    (KeyAbsent /\ main_pc # "start") =>
        /\ Exited
        /\ exit_status = <<1>>
        /\ stdout = <<"ERROR: OPENAI_API_KEY environment variable not set!">>
        /\ requests = <<>>
        /\ fs_reads = 0
        /\ fs_writes = 0
        /\ fs_written = <<>>
        /\ output_fs = output_before
        /\ pc = "not_called"

\* C11 witness: a run without the key has ended although its arguments and
\* its input file were there.
C11_Witness ==
    /\ env_api_key = <<>>
    /\ Exited
    /\ exit_status = <<1>>
    /\ Len(argv) >= 2
    /\ input_fs.exists
    /\ script = "batch_embeddings"

\* The arguments of text_to_speech_file as lines 69-72 read them.
VoiceArgument == IF Len(argv) > 2 THEN argv[3] ELSE "alloy"

ModelArgument == IF Len(argv) > 3 THEN argv[4] ELSE "tts-1"

\* The messages of the validations that fail in this run.
FailedValidations ==
    (IF ~input_fs.exists THEN {"ERROR: Input file not found!"} ELSE {})
    \cup (IF VoiceArgument \notin {"alloy", "echo", "fable", "onyx", "nova", "shimmer"}
          THEN {"ERROR: Invalid voice"} ELSE {})
    \cup (IF ModelArgument \notin {"tts-1", "tts-1-hd"}
          THEN {"ERROR: Invalid model"} ELSE {})
    \cup (IF input_fs.exists /\ Strip(ReadText(input_fs.content)) = <<>>
          THEN {"ERROR: Input file is empty!"} ELSE {})

\* C12: in text_to_speech_file, the chunker is invoked, a synthesis request
\* sent or the output file written only when the input file exists, the
\* voice is one of the six, the model one of the two and the trimmed text is
\* non-empty; a run in which one of these validations fails ends with exit
\* status 1 and the message of a failed validation.
C12_ValidationBeforeWork ==
    /\ (pc # "not_called" \/ requests # <<>> \/ fs_writes > 0 \/ output_fs # output_before) =>
          /\ FailedValidations = {}
          /\ text # <<>>
          /\ text = Strip(ReadText(input_fs.content))
    /\ \A k \in 1..Len(requests) :
          /\ requests[k].voice \in {"alloy", "echo", "fable", "onyx", "nova", "shimmer"}
          /\ requests[k].model \in {"tts-1", "tts-1-hd"}
    /\ (Exited /\ ~KeyAbsent /\ Len(argv) >= 1 /\ raised = "" /\ FailedValidations # {}) =>
          /\ exit_status = <<1>>
          /\ stdout # <<>>
          /\ stdout[Len(stdout)] \in FailedValidations

\* C12 witness: a run with valid arguments on a file of white space only
\* has ended on the empty-file error before the chunker was invoked.
C12_Witness ==
    /\ Exited
    /\ exit_status = <<1>>
    /\ Len(argv) = 4
    /\ input_fs.content # <<>>
    /\ FailedValidations = {"ERROR: Input file is empty!"}
    /\ stdout[Len(stdout)] = "ERROR: Input file is empty!"
    /\ pc = "not_called"
    /\ requests = <<>>

\* The scripts that require an argument.
ScriptsWithArguments ==
    {"text_to_speech_file", "text_to_speech", "batch_embeddings", "text_embeddings",
     "check_fine_tune_status", "use_fine_tuned_model"}

UsageLines ==
    { "Usage: python text_to_speech_file.py <input_file> [output_file] [voice] [model]",
      "Usage: python text_to_speech.py <text> [output_file] [voice] [model]",
      "Usage: python batch_embeddings.py <input_file> [output_file] [model]",
      "Usage: python text_embeddings.py <text> [model]",
      "Usage: python text_embeddings.py --compare text1 text2 [model]",
      "Usage: python check_fine_tune_status.py <job_id>",
      "Usage: python use_fine_tuned_model.py <fine_tuned_model_name>" }

\* The first line of every except clause of every script.
FailureMessages ==
    ErrorMessages \cup
    { "ERROR: Permission denied writing to", "ERROR: Rate limit or quota exceeded:",
      "ERROR: Authentication failed:", "ERROR: API error:", "ERROR:" }

\* The lines with which a run reports that it could not do its work.
FailureLines ==
    FailureMessages \cup UsageLines \cup
    { "ERROR: OPENAI_API_KEY environment variable not set!",
      "ERROR: Input file not found!", "ERROR: Invalid voice", "ERROR: Invalid model",
      "ERROR: Input file is empty!", "ERROR: --compare requires two text arguments",
      "ERROR: Training file not found!", "File processing failed!" }

\* The required arguments are missing.
ArgumentsMissing ==
    /\ script \in ScriptsWithArguments
    /\ \/ Len(argv) < 1
       \/ script = "text_embeddings" /\ argv[1] = "--compare" /\ Len(argv) < 3

\* C13: in every script, a run whose required arguments are missing prints
\* the usage text and exits with status 1 without doing anything else; a
\* raised failure of any category leads only to the except clauses and from
\* there to exit status 1 with an error message printed; and a run that
\* exits with status 0 has raised nothing and printed no failure.
C13_FailuresExitOne ==
    /\ (~KeyAbsent /\ ArgumentsMissing /\ Exited) =>
          /\ exit_status = <<1>>
          /\ Printed(UsageLines)
          /\ requests = <<>> /\ fs_reads = 0 /\ fs_writes = 0
    /\ raised # "" =>
          /\ main_pc \in {"except", "exited"}
          /\ Exited => (exit_status = <<1>> /\ Printed(FailureMessages))
    /\ (Exited /\ exit_status = <<0>>) =>
          /\ raised = ""
          /\ ~Printed(FailureLines)
          /\ ~KeyAbsent /\ ~ArgumentsMissing
    /\ Exited => exit_status \in {<<0>>, <<1>>}

\* C13 witness: the status request of check_fine_tune_status failed on an
\* unexpected error after the job was retrieved, and the run has exited
\* with status 1.
C13_Witness ==
    /\ script = "check_fine_tune_status"
    /\ Exited
    /\ exit_status = <<1>>
    /\ raised = "Exception"
    /\ raised_at = "cs_events"
    /\ Len(requests) = 2
    /\ stdout[Len(stdout)] = "ERROR:"

\* The lines that tell the user how to fix a rate-limit or an
\* authentication failure.
RemediationLines ==
    {RateLimitGuidance[k] : k \in 1..Len(RateLimitGuidance)}
    \cup {AuthenticationGuidance[k] : k \in 1..Len(AuthenticationGuidance)}
    \cup {"3. Check your usage limits and billing details"}

\* C14: in every script a run that failed on the rate limit or on
\* authentication has ended with a non-zero exit status and has printed
\* remediation guidance.
C14_UniformGuidance ==
    (Exited /\ raised \in {"RateLimitError", "AuthenticationError"}) =>
        /\ exit_status = <<1>>
        /\ Printed(RemediationLines)

\* ------------------------------------------------------------------------
\* Claims about output names, the save option, fine-tuning and batches
\* ------------------------------------------------------------------------
\* The name ends with .mp3, .opus, .aac or .flac.
HasAudioExtension(name) ==
    \/ Len(name) >= 4 /\ SubSeq(name, Len(name) - 3, Len(name)) = <<".","m","p","3">>
    \/ Len(name) >= 5 /\ SubSeq(name, Len(name) - 4, Len(name)) = <<".","o","p","u","s">>
    \/ Len(name) >= 4 /\ SubSeq(name, Len(name) - 3, Len(name)) = <<".","a","a","c">>
    \/ Len(name) >= 5 /\ SubSeq(name, Len(name) - 4, Len(name)) = <<".","f","l","a","c">>

\* The output name as given: the second argument, or the script's default.
SuppliedOutputName ==
    IF Len(argv) > 1 THEN argv[2]
    ELSE IF script = "text_to_speech_file"
         THEN <<"s","p","e","e","c","h","_","o","u","t","p","u","t",".","m","p","3">>
         ELSE <<"s","p","e","e","c","h",".","m","p","3">>

\* C15: in both text-to-speech scripts the normalization step leaves a
\* supplied name that ends with .mp3, .opus, .aac or .flac unchanged and
\* appends '.mp3' to any other name; the result ends with one of the four,
\* normalizing it again changes nothing, and it is not changed afterwards.
C15_OutputNameNormalized ==
    [][/\ main_pc \in {"fix_output", "ts_fix_output"} =>
             /\ output_file = SuppliedOutputName
             /\ output_file' = IF HasAudioExtension(output_file) THEN output_file
                               ELSE output_file \o <<".","m","p","3">>
             /\ HasAudioExtension(output_file')
             /\ NormalizeOutputName(output_file') = output_file'
       /\ (script \in {"text_to_speech_file", "text_to_speech"}
           /\ main_pc \notin {"check_args", "ts_args", "fix_output", "ts_fix_output"}) =>
             output_file' = output_file]_vars

\* C15 witness: text_to_speech was given "o.MP3" and has saved its audio
\* under "o.MP3.mp3", and text_to_speech_file given "o.opus" kept the name.
C15_Witness ==
    /\ Exited
    /\ exit_status = <<0>>
    /\ Len(argv) >= 2
    /\ \/ /\ script = "text_to_speech"
          /\ argv[2] = <<"o", ".", "M", "P", "3">>
          /\ output_file = <<"o", ".", "M", "P", "3", ".", "m", "p", "3">>
       \/ /\ script = "text_to_speech_file"
          /\ argv[2] = <<"m", "p", "3">>
          /\ output_file = <<"m", "p", "3", ".", "m", "p", "3">>

\* C16: a single-text run of text_embeddings that ended with status 0 has
\* saved the embedding, as JSON data with the text and the embedding, to
\* the file named after every '--save' that follows the text argument.
C16_SaveOptionAnywhere ==
    (script = "text_embeddings" /\ Exited /\ exit_status = <<0>>
     /\ Len(argv) >= 1 /\ argv[1] # "--compare") =>
        \A k \in 2..(Len(argv) - 1) :
            (argv[k] = "--save" /\ argv[k + 1] # "") =>
                \E w \in 1..Len(fs_written) :
                    /\ fs_written[w].path = argv[k + 1]
                    /\ fs_written[w].content.text = argv[1]
                    /\ fs_written[w].content.embedding = responses[1]

\* The requests that create a fine-tuning job.
CreateRequests == {k \in 1..Len(requests) : requests[k].api = "fine_tuning.jobs.create"}

\* Some poll has returned the status.
PollReturned(st) == \E k \in 1..Len(responses) : responses[k] = <<"status", st>>

\* C19: in fine_tune.py at most one job creation request is issued, and it
\* is issued only when a poll has already returned 'processed'; once a poll
\* has returned 'error' the run has exited with status 1 and no job was or
\* will be requested; a run that ended either created the job or exited
\* with status 1; and once the file status is 'processed' or 'error' the
\* run terminates.
C19_JobAfterProcessed ==
    /\ [](/\ Cardinality(CreateRequests) <= 1
          /\ Len(jobs) <= Cardinality(CreateRequests)
          /\ CreateRequests # {} => PollReturned("processed")
          /\ PollReturned("error") =>
                (Exited /\ exit_status = <<1>> /\ CreateRequests = {})
          /\ Exited => \/ exit_status = <<0>> /\ Len(jobs) = 1
                       \/ exit_status = <<1>> /\ jobs = <<>>)
    /\ [][Len(requests') > Len(requests)
          /\ requests'[Len(requests')].api = "fine_tuning.jobs.create"
          => PollReturned("processed") /\ ~PollReturned("error")]_vars
    /\ (file_status \in {"processed", "error"}) ~> Exited

\* C19 witness: the file was still being processed at the first polls, then
\* a poll returned 'processed', the job was created and the run ended.
C19_Witness ==
    /\ script = "fine_tune"
    /\ Exited
    /\ exit_status = <<0>>
    /\ Len(jobs) = 1
    /\ polls = MaxPolls
    /\ PollReturned("uploaded")
    /\ PollReturned("processed")

\* The positions of the lines of the input file that are not blank.
NonBlankPositions ==
    {p \in 1..Len(input_fs.content) :
        \E c \in 1..Len(input_fs.content[p]) :
            ~IsWhitespace(input_fs.content[p][c])}

\* Every response so far carried one embedding per input of its batch.
OnePerInput ==
    \A k \in 1..Len(responses) :
        responses[k] = Len(requests[k].input)

\* C20: in batch_embeddings, when every response carried one embedding per
\* input, the file saved holds one entry per non-blank input line, in input
\* order: the k-th non-blank line (1-based) has entry k, with index k - 1,
\* the line without its surrounding white space and its embedding,
\* and 'total_texts' equal to the number of entries; and when a batch
\* request failed nothing is written.  The file is the one a completed
\* json.dump leaves: an interrupted dump raises and leaves no document.
C20_BatchOutput ==
    script = "batch_embeddings" =>
        /\ (fs_written # <<>> /\ raised = "" /\ OnePerInput) =>
              LET out == fs_written[1].content
                  nonblank == NonBlankPositions
                  n == Cardinality(nonblank)
              IN  /\ Len(fs_written) = 1
                  /\ out.total_texts = n
                  /\ Len(out.embeddings) = n
                  /\ Len(requests) = (n + 99) \div 100
                  /\ \A p \in nonblank :
                        LET k == Cardinality({q \in nonblank : q <= p})
                        IN  /\ out.embeddings[k].index = k - 1
                            /\ out.embeddings[k].text = Strip(input_fs.content[p])
                            /\ out.embeddings[k].embedding = <<k, 0 - k>>
        /\ raised_at = "be_batch" => (fs_written = <<>> /\ fs_writes = 0)
        /\ fs_writes = Len(fs_written)

\* C20 witness: 201 texts were embedded in three batches and saved.
C20_Witness ==
    /\ script = "batch_embeddings"
    /\ Exited
    /\ exit_status = <<0>>
    /\ OnePerInput
    /\ Len(requests) = 3
    /\ Len(fs_written) = 1
    /\ fs_written[1].content.total_texts = 201
    /\ fs_written[1].content.embeddings[201].index = 200

====
